---- MODULE Spec2Model ----
(***************************************************************************)
(* TripFlow markdown pipeline (internal/services MarkdownService) and the  *)
(* storage collaborator it reads from.                                     *)
(*                                                                         *)
(* A Go string is a sequence of one-character strings.  A markdown input   *)
(* is a sequence of source blocks; every block carries its source text and *)
(* the goldmark syntax tree of that text, so that the same input can be    *)
(* given to the tree walk, to the renderer and to the regular expression.  *)
(***************************************************************************)
EXTENDS Integers, Sequences, FiniteSets, Bags, TLC

\* ------------------------------------------------------------------ bounds
MaxBlocks == 3      \* blocks per markdown document
MaxItems == 3       \* items per image-scan source

\* ----------------------------------------------------------------- strings
IsSpace(c) == c \in {" ", "\n", "\t", "\r"}

RECURSIVE TrimLeft(_)
TrimLeft(s) == IF s # <<>> /\ IsSpace(Head(s)) THEN TrimLeft(Tail(s)) ELSE s

RECURSIVE TrimRight(_)
TrimRight(s) ==
    IF s # <<>> /\ IsSpace(s[Len(s)]) THEN TrimRight(SubSeq(s, 1, Len(s) - 1)) ELSE s

\* strings.TrimSpace
TrimSpace(s) == TrimRight(TrimLeft(s))

\* strings.HasPrefix
HasPrefix(s, p) == Len(s) >= Len(p) /\ SubSeq(s, 1, Len(p)) = p

\* strings.Contains
Contains(s, sub) ==
    \E i \in 1..(Len(s) - Len(sub) + 1) : SubSeq(s, i, i + Len(sub) - 1) = sub

ToLowerChar(c) ==
    CASE c = "S" -> "s" [] c = "C" -> "c" [] c = "R" -> "r" [] c = "I" -> "i"
      [] c = "P" -> "p" [] c = "T" -> "t" [] c = "H" -> "h" [] c = "J" -> "j"
      [] c = "A" -> "a" [] c = "V" -> "v"
      [] OTHER -> c

\* strings.ToLower
ToLower(s) == [i \in 1..Len(s) |-> ToLowerChar(s[i])]

\* --------------------------------------------------- goldmark syntax tree
Node(k, lvl, v, d, ch) ==
    [kind |-> k, level |-> lvl, value |-> v, dest |-> d, children |-> ch]

Text(v) == Node("Text", 0, v, <<>>, <<>>)
Emphasis(lvl, ch) == Node("Emphasis", lvl, <<>>, <<>>, ch)
CodeSpan(ch) == Node("CodeSpan", 0, <<>>, <<>>, ch)
CodeBlock(v) == Node("CodeBlock", 0, v, <<>>, <<>>)
Link(d, ch) == Node("Link", 0, <<>>, d, ch)
Image(d, ch) == Node("Image", 0, <<>>, d, ch)
AutoLink(url) == Node("AutoLink", 0, <<>>, url, <<>>)
RawHTML(v) == Node("RawHTML", 0, v, <<>>, <<>>)
Heading(lvl, ch) == Node("Heading", lvl, <<>>, <<>>, ch)
Paragraph(ch) == Node("Paragraph", 0, <<>>, <<>>, ch)
Blockquote(ch) == Node("Blockquote", 0, <<>>, <<>>, ch)
HTMLBlock(v) == Node("HTMLBlock", 0, v, <<>>, <<>>)
Document(ch) == Node("Document", 0, <<>>, <<>>, ch)

\* ------------------------------------------------------- markdown inputs
Block(s, n) == [src |-> s, node |-> n]

sScriptOpen == <<"<", "s", "c", "r", "i", "p", "t", ">">>
sScriptUpper == <<"<", "S", "C", "R", "I", "P", "T", ">">>
sScriptClose == <<"<", "/", "s", "c", "r", "i", "p", "t", ">">>
sJsUrl == <<"j", "a", "v", "a", "s", "c", "r", "i", "p", "t", ":", "a">>
sJsUrlMixed == <<"J", "a", "v", "a", "S", "c", "r", "i", "p", "t", ":", "a">>
sHttpUrl == <<"h", "t", "t", "p", ":", "/", "/", "e">>
sPng == <<"x", ".", "p", "n", "g">>

\* "# Hi"
BlkH1 == Block(<<"#", " ", "H", "i">>, Heading(1, <<Text(<<"H", "i">>)>>))
\* "# A *b*"
BlkH1Emph ==
    Block(<<"#", " ", "A", " ", "*", "b", "*">>,
          Heading(1, <<Text(<<"A", " ">>), Emphasis(1, <<Text(<<"b">>)>>)>>))
\* "# *c*"
BlkH1OnlyEmph ==
    Block(<<"#", " ", "*", "c", "*">>, Heading(1, <<Emphasis(1, <<Text(<<"c">>)>>)>>))
\* "#"
BlkH1Empty == Block(<<"#">>, Heading(1, <<>>))
\* "## S"
BlkH2 == Block(<<"#", "#", " ", "S">>, Heading(2, <<Text(<<"S">>)>>))
\* "d."
BlkPara == Block(<<"d", ".">>, Paragraph(<<Text(<<"d", ".">>)>>))
\* "**b** x"
BlkParaStrong ==
    Block(<<"*", "*", "b", "*", "*", " ", "x">>,
          Paragraph(<<Emphasis(2, <<Text(<<"b">>)>>), Text(<<" ", "x">>)>>))
\* "![i](x.png)"
BlkParaImage ==
    Block(<<"!", "[", "i", "]", "(">> \o sPng \o <<")">>,
          Paragraph(<<Image(sPng, <<Text(<<"i">>)>>)>>))
\* "> q"
BlkQuote ==
    Block(<<">", " ", "q">>, Blockquote(<<Paragraph(<<Text(<<"q">>)>>)>>))
\* "<script>a</script>"
BlkHtmlScript ==
    Block(sScriptOpen \o <<"a">> \o sScriptClose,
          HTMLBlock(sScriptOpen \o <<"a">> \o sScriptClose))
\* "x <SCRIPT>y"
BlkInlineScript ==
    Block(<<"x", " ">> \o sScriptUpper \o <<"y">>,
          Paragraph(<<Text(<<"x", " ">>), RawHTML(sScriptUpper), Text(<<"y">>)>>))
\* "**u": an emphasis that is never closed; its delimiter is text
BlkUnclosed ==
    Block(<<"*", "*", "u">>, Paragraph(<<Text(<<"*", "*">>), Text(<<"u">>)>>))
\* "<javascript:a>"
BlkAutoJs == Block(<<"<">> \o sJsUrl \o <<">">>, Paragraph(<<AutoLink(sJsUrl)>>))
\* "[l](JavaScript:a)"
BlkLinkJs ==
    Block(<<"[", "l", "]", "(">> \o sJsUrlMixed \o <<")">>,
          Paragraph(<<Link(sJsUrlMixed, <<Text(<<"l">>)>>)>>))
\* "[l](http://e)"
BlkLinkHttp ==
    Block(<<"[", "l", "]", "(">> \o sHttpUrl \o <<")">>,
          Paragraph(<<Link(sHttpUrl, <<Text(<<"l">>)>>)>>))
\* "    <script>" (an indented code block)
BlkCodeScript ==
    Block(<<" ", " ", " ", " ">> \o sScriptOpen, CodeBlock(sScriptOpen \o <<"\n">>))

StructureBlocks ==
    {BlkH1, BlkH1Emph, BlkH1OnlyEmph, BlkH1Empty, BlkH2,
     BlkPara, BlkParaStrong, BlkParaImage, BlkQuote}

MarkupBlocks ==
    {BlkHtmlScript, BlkInlineScript, BlkAutoJs, BlkLinkJs, BlkLinkHttp, BlkCodeScript,
     BlkUnclosed}

SeqsUpTo(S, n) == UNION {[1..k -> S] : k \in 0..n}

\* The markdown documents the calls are made with.
Docs == SeqsUpTo(StructureBlocks, MaxBlocks) \cup SeqsUpTo(MarkupBlocks, MaxBlocks)

\* The markdown text of a document: its blocks separated by blank lines.
RECURSIVE Source(_)
Source(md) ==
    IF md = <<>> THEN <<>>
    ELSE IF Len(md) = 1 THEN md[1].src
    ELSE md[1].src \o <<"\n", "\n">> \o Source(Tail(md))

\* md.Parser().Parse(reader)
Parse(md) == Document([i \in 1..Len(md) |-> md[i].node])

\* ------------------------------------------- extractTitleAndDescription
RECURSIVE DirectText(_)
\* the loop over FirstChild()/NextSibling() that writes the *ast.Text children
DirectText(children) ==
    IF children = <<>> THEN <<>>
    ELSE (IF Head(children).kind = "Text" THEN Head(children).value ELSE <<>>)
         \o DirectText(Tail(children))

\* Visit with the description taken only once the title is known
Visit_DescriptionAfterTitle(n, st) ==
    CASE n.kind = "Heading" /\ n.level = 1 /\ st.title = <<>> ->
           [st EXCEPT !.title = TrimSpace(DirectText(n.children))]
      [] n.kind = "Paragraph" /\ st.description = <<>> /\ st.title # <<>> ->
           [st EXCEPT !.description = TrimSpace(DirectText(n.children))]
      [] OTHER -> st

\* the callback given to ast.Walk, on entering a node
Visit(n, st) ==
    CASE n.kind = "Heading" /\ n.level = 1 /\ st.title = <<>> ->
           [st EXCEPT !.title = TrimSpace(DirectText(n.children))]
      [] n.kind = "Paragraph" /\ st.description = <<>> ->
           [st EXCEPT !.description = TrimSpace(DirectText(n.children))]
      [] OTHER -> st

RECURSIVE Walk(_, _), WalkChildren(_, _, _)
\* ast.Walk: depth first, the node before its children
Walk(n, st) == WalkChildren(n.children, 1, Visit(n, st))
WalkChildren(ch, i, st) ==
    IF i > Len(ch) THEN st ELSE WalkChildren(ch, i + 1, Walk(ch[i], st))

\* extractTitleAndDescription giving a document without a title a default one
extractTitleAndDescription_DefaultTitle(md) ==
    LET st == Walk(Parse(md), [title |-> <<>>, description |-> <<>>])
    IN  IF st.title = <<>>
        THEN [st EXCEPT !.title = <<"U", "n", "t", "i", "t", "l", "e", "d">>]
        ELSE st

extractTitleAndDescription(md) ==
    Walk(Parse(md), [title |-> <<>>, description |-> <<>>])

\* ------------------------------------------------------- markdownToHTML
\* HTML tokens: the renderer's output and the sanitizer's input and output.
Attr(k, v) == [key |-> k, val |-> v]
StartTag(n, as) == [type |-> "start", name |-> n, attrs |-> as, data |-> <<>>]
EndTag(n) == [type |-> "end", name |-> n, attrs |-> <<>>, data |-> <<>>]
TextTok(d) == [type |-> "text", name |-> <<>>, attrs |-> <<>>, data |-> d]
CommentTok(d) == [type |-> "comment", name |-> <<>>, attrs |-> <<>>, data |-> d]

tP == <<"p">>
tA == <<"a">>
tEm == <<"e", "m">>
tStrong == <<"s", "t", "r", "o", "n", "g">>
tCode == <<"c", "o", "d", "e">>
tPre == <<"p", "r", "e">>
tImg == <<"i", "m", "g">>
tBlockquote == <<"b", "l", "o", "c", "k", "q", "u", "o", "t", "e">>
tScript == <<"s", "c", "r", "i", "p", "t">>
tStyle == <<"s", "t", "y", "l", "e">>
tH(lvl) == <<"h", CASE lvl = 1 -> "1" [] lvl = 2 -> "2" [] lvl = 3 -> "3"
                    [] lvl = 4 -> "4" [] lvl = 5 -> "5" [] OTHER -> "6">>
kHref == <<"h", "r", "e", "f">>
kSrc == <<"s", "r", "c">>
kAlt == <<"a", "l", "t">>
kRel == <<"r", "e", "l">>
sNofollow == <<"n", "o", "f", "o", "l", "l", "o", "w">>
sRawOmitted == <<" ", "r", "a", "w", " ", "H", "T", "M", "L", " ",
                 "o", "m", "i", "t", "t", "e", "d", " ">>
sJavascript == <<"j", "a", "v", "a", "s", "c", "r", "i", "p", "t", ":">>
sVbscript == <<"v", "b", "s", "c", "r", "i", "p", "t", ":">>
sFile == <<"f", "i", "l", "e", ":">>
sData == <<"d", "a", "t", "a", ":">>
sHttp == <<"h", "t", "t", "p">>
sHttps == <<"h", "t", "t", "p", "s">>
sMailto == <<"m", "a", "i", "l", "t", "o">>
NL == <<"\n">>

\* goldmark's IsDangerousURL (its exemption of data:image/ URLs is not needed:
\* no input has a data: URL)
IsDangerousURL(url) ==
    \E p \in {sJavascript, sVbscript, sFile, sData} : HasPrefix(ToLower(url), p)

RECURSIVE PlainText(_)
\* the text of a node's descendants (an image's alt text)
PlainText(children) ==
    IF children = <<>> THEN <<>>
    ELSE (IF Head(children).kind = "Text" THEN Head(children).value
          ELSE PlainText(Head(children).children))
         \o PlainText(Tail(children))

RECURSIVE Render(_), RenderAll(_)
\* goldmark's HTML renderer with its default options (raw HTML is not written)
Render(n) ==
    CASE n.kind = "Document" -> RenderAll(n.children)
      [] n.kind = "Heading" ->
           <<StartTag(tH(n.level), <<>>)>> \o RenderAll(n.children)
             \o <<EndTag(tH(n.level)), TextTok(NL)>>
      [] n.kind = "Paragraph" ->
           <<StartTag(tP, <<>>)>> \o RenderAll(n.children) \o <<EndTag(tP), TextTok(NL)>>
      [] n.kind = "Blockquote" ->
           <<StartTag(tBlockquote, <<>>), TextTok(NL)>> \o RenderAll(n.children)
             \o <<EndTag(tBlockquote), TextTok(NL)>>
      [] n.kind = "CodeBlock" ->
           <<StartTag(tPre, <<>>), StartTag(tCode, <<>>), TextTok(n.value),
             EndTag(tCode), EndTag(tPre), TextTok(NL)>>
      [] n.kind = "HTMLBlock" -> <<CommentTok(sRawOmitted), TextTok(NL)>>
      [] n.kind = "Text" -> <<TextTok(n.value)>>
      [] n.kind = "Emphasis" ->
           LET t == IF n.level = 2 THEN tStrong ELSE tEm
           IN  <<StartTag(t, <<>>)>> \o RenderAll(n.children) \o <<EndTag(t)>>
      [] n.kind = "CodeSpan" ->
           <<StartTag(tCode, <<>>)>> \o RenderAll(n.children) \o <<EndTag(tCode)>>
      [] n.kind = "Link" ->
           <<StartTag(tA, <<Attr(kHref, IF IsDangerousURL(n.dest) THEN <<>> ELSE n.dest)>>)>>
             \o RenderAll(n.children) \o <<EndTag(tA)>>
      [] n.kind = "Image" ->
           <<StartTag(tImg, <<Attr(kSrc, IF IsDangerousURL(n.dest) THEN <<>> ELSE n.dest),
                               Attr(kAlt, PlainText(n.children))>>)>>
      [] n.kind = "AutoLink" ->
           <<StartTag(tA, <<Attr(kHref, n.dest)>>), TextTok(n.dest), EndTag(tA)>>
      [] n.kind = "RawHTML" -> <<CommentTok(sRawOmitted)>>
      [] OTHER -> <<>>
RenderAll(ns) == IF ns = <<>> THEN <<>> ELSE Render(Head(ns)) \o RenderAll(Tail(ns))

\* md.Convert([]byte(markdown), &buf)
Convert(markdown) == Render(Parse(markdown))

\* bluemonday.UGCPolicy(): the elements it lets through, the ones whose content it
\* drops with them, and the ones it drops when no attribute of theirs is left
AllowedElements ==
    {tP, tA, tEm, tStrong, tCode, tPre, tImg, tBlockquote} \cup {tH(l) : l \in 1..6}
SkipContentElements == {tScript, tStyle}
NeedsAttrs == {tA, tImg}
AllowedSchemes == {sHttp, sHttps, sMailto}

RECURSIVE SchemeEnd(_, _)
\* the index of the ':' that ends the URL's scheme, 0 when it has none
SchemeEnd(url, i) ==
    IF i > Len(url) THEN 0
    ELSE IF url[i] = ":" THEN i
    ELSE IF url[i] \in {"/", "?", "#"} THEN 0
    ELSE SchemeEnd(url, i + 1)

\* a URL the policy accepts: relative, or of an allowed scheme
ValidURL(url) ==
    /\ TrimSpace(url) # <<>>
    /\ LET u == TrimSpace(url)
           e == SchemeEnd(u, 1)
       IN  e = 0 \/ ToLower(SubSeq(u, 1, e - 1)) \in AllowedSchemes

AttrAllowed(name, a) ==
    \/ name = tA /\ a.key = kHref /\ ValidURL(a.val)
    \/ name = tImg /\ a.key = kSrc /\ ValidURL(a.val)
    \/ name = tImg /\ a.key = kAlt

\* the policy's attribute filter; links get rel="nofollow"
SanitizeAttrs(name, as) ==
    LET kept == SelectSeq(as, LAMBDA a : AttrAllowed(name, a))
    IN  IF name = tA /\ kept # <<>> THEN kept \o <<Attr(kRel, sNofollow)>> ELSE kept

RECURSIVE SanitizeFrom(_, _, _, _)
\* the token loop of Policy.Sanitize: skipping counts the open elements whose
\* content is dropped, closing is the stack of start tags dropped for lack of
\* attributes, whose end tags are dropped with them
SanitizeFrom(toks, i, skipping, closing) ==
    IF i > Len(toks) THEN <<>>
    ELSE LET t == toks[i]
         IN CASE t.type = "comment" -> SanitizeFrom(toks, i + 1, skipping, closing)
              [] t.type = "text" ->
                   (IF skipping = 0 THEN <<t>> ELSE <<>>)
                     \o SanitizeFrom(toks, i + 1, skipping, closing)
              [] t.type = "start" ->
                   IF t.name \notin AllowedElements
                   THEN SanitizeFrom(toks, i + 1,
                          IF t.name \in SkipContentElements THEN skipping + 1 ELSE skipping,
                          closing)
                   ELSE LET as == SanitizeAttrs(t.name, t.attrs)
                        IN  IF as = <<>> /\ t.name \in NeedsAttrs
                            THEN SanitizeFrom(toks, i + 1, skipping, <<t.name>> \o closing)
                            ELSE (IF skipping = 0 THEN <<StartTag(t.name, as)>> ELSE <<>>)
                                   \o SanitizeFrom(toks, i + 1, skipping, closing)
              [] t.type = "end" ->
                   IF closing # <<>> /\ Head(closing) = t.name
                   THEN SanitizeFrom(toks, i + 1, skipping, Tail(closing))
                   ELSE IF t.name \notin AllowedElements
                   THEN SanitizeFrom(toks, i + 1,
                          IF t.name \in SkipContentElements /\ skipping > 0
                          THEN skipping - 1 ELSE skipping,
                          closing)
                   ELSE (IF skipping = 0 THEN <<t>> ELSE <<>>)
                          \o SanitizeFrom(toks, i + 1, skipping, closing)
              [] OTHER -> SanitizeFrom(toks, i + 1, skipping, closing)

\* p.Sanitize(buf.String())
Sanitize(toks) == SanitizeFrom(toks, 1, 0, <<>>)

EscapeChar(c) ==
    CASE c = "&" -> <<"&", "a", "m", "p", ";">>
      [] c = "<" -> <<"&", "l", "t", ";">>
      [] c = ">" -> <<"&", "g", "t", ";">>
      [] c = "\"" -> <<"&", "#", "3", "4", ";">>
      [] c = "'" -> <<"&", "#", "3", "9", ";">>
      [] OTHER -> <<c>>

RECURSIVE EscapeString(_)
\* html.EscapeString
EscapeString(s) == IF s = <<>> THEN <<>> ELSE EscapeChar(Head(s)) \o EscapeString(Tail(s))

RECURSIVE AttrString(_)
AttrString(as) ==
    IF as = <<>> THEN <<>>
    ELSE <<" ">> \o Head(as).key \o <<"=", "\"">> \o EscapeString(Head(as).val) \o <<"\"">>
         \o AttrString(Tail(as))

\* html.Token.String
TokenString(t) ==
    CASE t.type = "start" -> <<"<">> \o t.name \o AttrString(t.attrs) \o <<">">>
      [] t.type = "end" -> <<"<", "/">> \o t.name \o <<">">>
      [] t.type = "text" -> EscapeString(t.data)
      [] OTHER -> <<"<", "!", "-", "-">> \o t.data \o <<"-", "-", ">">>

RECURSIVE Serialize(_)
Serialize(toks) ==
    IF toks = <<>> THEN <<>> ELSE TokenString(Head(toks)) \o Serialize(Tail(toks))

\* ------------------------------------------------ the sanitizer's reading
\* s has p at position i
HasPrefixAt(s, i, p) == i + Len(p) - 1 <= Len(s) /\ SubSeq(s, i, i + Len(p) - 1) = p

RECURSIVE FindChar(_, _, _)
\* the first position from i on with a character of cs, Len(s) + 1 when none
FindChar(s, i, cs) == IF i > Len(s) \/ s[i] \in cs THEN i ELSE FindChar(s, i + 1, cs)

RECURSIVE FindSeq(_, _, _)
\* the first position from i on where p stands, Len(s) + 1 when nowhere
FindSeq(s, i, p) ==
    IF i > Len(s) THEN i ELSE IF HasPrefixAt(s, i, p) THEN i ELSE FindSeq(s, i + 1, p)

EscapedChars == {"&", "<", ">", "\"", "'"}

RECURSIVE UnescapeFrom(_, _)
UnescapeFrom(s, i) ==
    IF i > Len(s) THEN <<>>
    ELSE LET m == {c \in EscapedChars : HasPrefixAt(s, i, EscapeChar(c))}
         IN  IF m # {}
             THEN LET c == CHOOSE x \in m : TRUE
                  IN  <<c>> \o UnescapeFrom(s, i + Len(EscapeChar(c)))
             ELSE <<s[i]>> \o UnescapeFrom(s, i + 1)

\* html.UnescapeString, for the entities html.EscapeString writes
UnescapeString(s) == UnescapeFrom(s, 1)

sCommentOpen == <<"<", "!", "-", "-">>
sCommentClose == <<"-", "-", ">">>

RECURSIVE ParseAttrs(_, _)
\* the attributes of a start tag from position j (a space or the closing ">"),
\* and the position after the tag
ParseAttrs(s, j) ==
    IF j > Len(s) \/ s[j] = ">" THEN [attrs |-> <<>>, next |-> j + 1]
    ELSE LET k == FindChar(s, j + 1, {"="})
             q == FindChar(s, k + 2, {"\""})
             rest == ParseAttrs(s, q + 1)
         IN  [attrs |-> <<Attr(ToLower(SubSeq(s, j + 1, k - 1)),
                               UnescapeString(SubSeq(s, k + 2, q - 1)))>> \o rest.attrs,
              next |-> rest.next]

RECURSIVE TokenizeFrom(_, _)
\* html.Tokenizer on the text from position i: text up to the next "<", comments,
\* end tags, start tags with quoted attribute values
TokenizeFrom(s, i) ==
    IF i > Len(s) THEN <<>>
    ELSE IF s[i] # "<"
    THEN LET e == FindChar(s, i, {"<"})
         IN  <<TextTok(UnescapeString(SubSeq(s, i, e - 1)))>> \o TokenizeFrom(s, e)
    ELSE IF HasPrefixAt(s, i, sCommentOpen)
    THEN LET e == FindSeq(s, i + Len(sCommentOpen), sCommentClose)
         IN  <<CommentTok(SubSeq(s, i + Len(sCommentOpen), e - 1))>>
               \o TokenizeFrom(s, e + Len(sCommentClose))
    ELSE IF HasPrefixAt(s, i, <<"<", "/">>)
    THEN LET e == FindChar(s, i, {">"})
         IN  <<EndTag(ToLower(SubSeq(s, i + 2, e - 1)))>> \o TokenizeFrom(s, e + 1)
    ELSE LET n == FindChar(s, i + 1, {" ", ">"})
             a == ParseAttrs(s, n)
         IN  <<StartTag(ToLower(SubSeq(s, i + 1, n - 1)), a.attrs)>>
               \o TokenizeFrom(s, a.next)

Tokenize(s) == TokenizeFrom(s, 1)

\* p.Sanitize(html) on a string: read the tokens, filter them, write them
SanitizeString(html) == Serialize(Sanitize(Tokenize(html)))

\* ---------------------------------------------------------------- errors
\* An error is the chain of its messages, outermost first; nil is the empty chain.
NilErr == <<>>
\* fmt.Errorf("<msg>: %w", err)
Wrap(msg, err) == <<msg>> \o err
\* errors.Unwrap
Unwrap(err) == Tail(err)

ErrRender == <<"render failed">>

\* the outcomes of md.Convert: it fails only while a node is being written
ConvertFailures(markdown) == IF markdown = <<>> THEN {FALSE} ELSE BOOLEAN

\* markdownToHTML returning the renderer's output as it is
markdownToHTML_Unsanitized(markdown, convertFails) ==
    IF convertFails
    THEN [html |-> <<>>, err |-> ErrRender]
    ELSE [html |-> Serialize(Convert(markdown)), err |-> NilErr]

markdownToHTML(markdown, convertFails) ==
    IF convertFails
    THEN [html |-> <<>>, err |-> ErrRender]
    ELSE [html |-> Serialize(Sanitize(Convert(markdown))), err |-> NilErr]

sImgTag == <<"<", "i", "m", "g">>

\* processImages failing on HTML that has an image in it
processImages_Failing(htmlContent) ==
    IF Contains(htmlContent, sImgTag)
    THEN [html |-> <<>>, err |-> <<"image not found">>]
    ELSE [html |-> htmlContent, err |-> NilErr]

processImages(htmlContent) == [html |-> htmlContent, err |-> NilErr]

\* A *ProcessedContent is <<>> when nil, else the one-element sequence of the value.
NilContent == <<>>

\* ProcessMarkdown with the title and the description in each other's field
ProcessMarkdown_FieldsSwapped(markdownContent, convertFails) ==
    LET h == markdownToHTML(markdownContent, convertFails)
        td == extractTitleAndDescription(markdownContent)
    IN  IF h.err # NilErr
        THEN [content |-> NilContent,
              err |-> Wrap("failed to convert markdown to HTML", h.err)]
        ELSE [content |-> <<[Title |-> td.description,
                             Description |-> td.title,
                             HTMLContent |-> processImages(h.html).html]>>,
              err |-> NilErr]

\* ProcessMarkdown returning what it has so far together with the error
ProcessMarkdown_PartialOnError(markdownContent, convertFails) ==
    LET h == markdownToHTML(markdownContent, convertFails)
        td == extractTitleAndDescription(markdownContent)
    IN  [content |-> <<[Title |-> td.title,
                        Description |-> td.description,
                        HTMLContent |-> processImages(h.html).html]>>,
         err |-> IF h.err # NilErr
                 THEN Wrap("failed to convert markdown to HTML", h.err)
                 ELSE NilErr]

ProcessMarkdown(markdownContent, convertFails) ==
    LET h == markdownToHTML(markdownContent, convertFails)
    IN  IF h.err # NilErr
        THEN [content |-> NilContent,
              err |-> Wrap("failed to convert markdown to HTML", h.err)]
        ELSE LET td == extractTitleAndDescription(markdownContent)
                 img == processImages(h.html)
             IN  IF img.err # NilErr
                 THEN [content |-> NilContent,
                       err |-> Wrap("failed to process images", img.err)]
                 ELSE [content |-> <<[Title |-> td.title,
                                      Description |-> td.description,
                                      HTMLContent |-> img.html]>>,
                       err |-> NilErr]

\* ---------------------------------------------------- findInternalImages
\* Sources for the image scan: image references and the text between them.
ImageItem(alt, target) == [kind |-> "image", alt |-> alt, target |-> target, text |-> <<>>]
TextItem(t) == [kind |-> "text", alt |-> <<>>, target |-> <<>>, text |-> t]

tgtPng == sPng
tgtAbs == <<"/", "i", "/", "y">>
tgtHttp == sHttpUrl
tgtHttps == <<"h", "t", "t", "p", "s", ":", "/", "/", "e">>
tgtUpperHttp == <<"H", "T", "T", "P", ":", "/", "/", "e">>
tgtFtp == <<"f", "t", "p", ":", "/", "/", "e">>
tgtOneSlash == <<"h", "t", "t", "p", ":", "/", "e">>

ImageTargets == {tgtPng, tgtAbs, tgtHttp, tgtHttps, tgtUpperHttp, tgtFtp, tgtOneSlash}

Items ==
    {ImageItem(<<"a">>, t) : t \in ImageTargets}
      \cup {ImageItem(<<>>, tgtPng)}
      \cup {TextItem(<<" ">>), TextItem(<<"t", "\n">>),
            TextItem(<<"[", "l", "]", "(", "u", ")">>)}

ItemSeqs == SeqsUpTo(Items, MaxItems)

RECURSIVE ItemsSource(_)
\* the markdown text of a sequence of items
ItemsSource(its) ==
    IF its = <<>> THEN <<>>
    ELSE (IF Head(its).kind = "image"
          THEN <<"!", "[">> \o Head(its).alt \o <<"]", "(">> \o Head(its).target \o <<")">>
          ELSE Head(its).text)
         \o ItemsSource(Tail(its))

RECURSIVE IndexFrom(_, _, _)
\* the first index >= i of character c in s, 0 when there is none
IndexFrom(s, c, i) ==
    IF i > Len(s) THEN 0 ELSE IF s[i] = c THEN i ELSE IndexFrom(s, c, i + 1)

NoMatch == [ok |-> FALSE, group |-> <<>>, end |-> 0]

RECURSIVE MatchRest(_, _)
\* `.*?\]\(([^)]+)\)` from index j: the lazy `.*?` takes one more character (never
\* a newline) each time `\]\(([^)]+)\)` does not match where it stands
MatchRest(s, j) ==
    IF j + 1 > Len(s) THEN NoMatch
    ELSE LET k == IndexFrom(s, ")", j + 2)
         IN  IF s[j] = "]" /\ s[j + 1] = "(" /\ k > j + 2
             THEN [ok |-> TRUE, group |-> SubSeq(s, j + 2, k - 1), end |-> k]
             ELSE IF s[j] = "\n" THEN NoMatch
             ELSE MatchRest(s, j + 1)

\* `!\[.*?\]\(([^)]+)\)` anchored at index i
MatchAt(s, i) ==
    IF i + 1 <= Len(s) /\ s[i] = "!" /\ s[i + 1] = "[" THEN MatchRest(s, i + 2) ELSE NoMatch

RECURSIVE FindAllStringSubmatch(_, _)
\* imageRegex.FindAllStringSubmatch(markdownContent, -1): the capture groups of the
\* leftmost non-overlapping matches, from index i on
FindAllStringSubmatch(s, i) ==
    IF i > Len(s) THEN <<>>
    ELSE LET m == MatchAt(s, i)
         IN  IF m.ok THEN <<m.group>> \o FindAllStringSubmatch(s, m.end + 1)
             ELSE FindAllStringSubmatch(s, i + 1)

sHttpPrefix == <<"h", "t", "t", "p", ":", "/", "/">>
sHttpsPrefix == <<"h", "t", "t", "p", "s", ":", "/", "/">>

\* IsInternalPath comparing the scheme in any letter case
IsInternalPath_AnyCase(imagePath) ==
    ~HasPrefix(ToLower(imagePath), sHttpPrefix) /\ ~HasPrefix(ToLower(imagePath), sHttpsPrefix)

\* the test of an image path in the loop over the matches
IsInternalPath(imagePath) ==
    ~HasPrefix(imagePath, sHttpPrefix) /\ ~HasPrefix(imagePath, sHttpsPrefix)

RECURSIVE Dedup(_, _)
Dedup(ss, seen) ==
    IF ss = <<>> THEN <<>>
    ELSE IF Head(ss) \in seen THEN Dedup(Tail(ss), seen)
    ELSE <<Head(ss)>> \o Dedup(Tail(ss), seen \cup {Head(ss)})

\* CollectInternal keeping one entry per path
CollectInternal_Dedup(matches) == Dedup(SelectSeq(matches, IsInternalPath), {})

\* the loop over the matches: append the internal paths
CollectInternal(matches) == SelectSeq(matches, IsInternalPath)

findInternalImages(markdownContent) ==
    [images |-> CollectInternal(FindAllStringSubmatch(markdownContent, 1)),
     err |-> NilErr]

\* ------------------------------------------------------ LocalFileStorage
RECURSIVE SplitPath(_, _)
\* the segments of a path between its separators; cur is the segment being read
SplitPath(s, cur) ==
    IF s = <<>> THEN <<cur>>
    ELSE IF Head(s) = "/" THEN <<cur>> \o SplitPath(Tail(s), <<>>)
    ELSE SplitPath(Tail(s), Append(cur, Head(s)))

RECURSIVE CleanSegments(_, _)
\* filepath.Clean on a rooted path: empty and "." segments go, ".." takes the
\* segment before it (none at the root)
CleanSegments(segs, out) ==
    IF segs = <<>> THEN out
    ELSE LET g == Head(segs)
         IN  IF g = <<>> \/ g = <<".">> THEN CleanSegments(Tail(segs), out)
             ELSE IF g = <<".", ".">>
             THEN CleanSegments(Tail(segs),
                                IF out = <<>> THEN out ELSE SubSeq(out, 1, Len(out) - 1))
             ELSE CleanSegments(Tail(segs), Append(out, g))

RECURSIVE JoinSegments(_)
JoinSegments(segs) ==
    IF segs = <<>> THEN <<>> ELSE <<"/">> \o Head(segs) \o JoinSegments(Tail(segs))

\* filepath.Clean of a rooted path
Clean(path) ==
    LET segs == CleanSegments(SplitPath(path, <<>>), <<>>)
    IN  IF segs = <<>> THEN <<"/">> ELSE JoinSegments(segs)

\* filepath.Join(dir, path)
Join(dir, path) == Clean(dir \o <<"/">> \o path)

\* filepath.Abs of a path that is already rooted
Abs(path) == Clean(path)

\* lfs.baseDir: "/d"
baseDir == <<"/", "d">>

NoEntry == [kind |-> "none", data |-> <<>>]
FileEntry(doc) == [kind |-> "file", data |-> doc]
DirEntry == [kind |-> "dir", data |-> <<>>]

pathBase == <<"/", "d">>
pathA == <<"/", "d", "/", "a">>
pathB == <<"/", "d", "/", "b">>
pathSibling == <<"/", "d", "2", "/", "s">>
pathOutside == <<"/", "e", "/", "s">>

\* the paths of the file system the storage runs on
FsPaths == {pathBase, pathA, pathB, pathSibling, pathOutside}

\* how many uploads a run makes at most
MaxUploads == 2

\* uuid.New().String() of the n-th draw: a value no earlier draw returned
Digit == <<"1", "2", "3", "4", "5", "6", "7", "8", "9">>
uuidString(n) == <<Digit[n]>>

sUploads == <<"u", "p", "l", "o", "a", "d", "s">>
extMd == <<".", "m", "d">>

\* the relative paths UploadFile can return
UploadPaths ==
    {sUploads \o <<"/">> \o uuidString(n) \o e : n \in 1..MaxUploads, e \in {extMd, <<>>}}

\* the path arguments of the calls: "", "a", "b", ".", "../d2/s", "../e/s",
\* "../d/a", "uploads" and the paths of uploads
PathArgs ==
    {<<>>, <<"a">>, <<"b">>, <<".">>,
     <<".", ".", "/", "d", "2", "/", "s">>,
     <<".", ".", "/", "e", "/", "s">>,
     <<".", ".", "/", "d", "/", "a">>,
     sUploads}
    \cup UploadPaths

NoReader == [open |-> FALSE, kind |-> "none", data |-> <<>>]

ErrPathEmpty == <<"path cannot be empty">>
ErrTraversal == <<"path traversal detected">>
ErrNotFound == <<"file not found">>
ErrPermission == <<"permission denied">>
ErrIO == <<"read failed">>

\* os.Stat / os.Open find something at p
Exists(fsys, p) == p \in DOMAIN fsys /\ fsys[p].kind # "none"

\* LocalFileStorage.GetFile on the file system fsys; openFails: os.Open fails on
\* an existing file; touched: the paths the call handed to the os package
GetFile(fsys, path, openFails) ==
    IF path = <<>> THEN [reader |-> NoReader, err |-> ErrPathEmpty, touched |-> {}]
    ELSE LET fullPath == Join(baseDir, path)
             absBaseDir == Abs(baseDir)
             absFullPath == Abs(fullPath)
         IN  IF ~HasPrefix(absFullPath, absBaseDir)
             THEN [reader |-> NoReader, err |-> ErrTraversal, touched |-> {}]
             ELSE IF fullPath \notin DOMAIN fsys \/ fsys[fullPath].kind = "none"
             THEN [reader |-> NoReader, err |-> ErrNotFound, touched |-> {fullPath}]
             ELSE IF openFails
             THEN [reader |-> NoReader, err |-> Wrap("failed to open file", ErrPermission),
                   touched |-> {fullPath}]
             ELSE [reader |-> [open |-> TRUE, kind |-> fsys[fullPath].kind,
                               data |-> fsys[fullPath].data],
                   err |-> NilErr, touched |-> {fullPath}]

\* one Read for io.ReadAll: the first block of the stream only
ReadAll_Partial(reader, readFails) ==
    IF reader.kind = "dir" \/ readFails
    THEN [content |-> <<>>, err |-> ErrIO]
    ELSE [content |-> SubSeq(reader.data, 1, 1), err |-> NilErr]

\* io.ReadAll(fileReader): a directory cannot be read, a file read can fail
ReadAll(reader, readFails) ==
    IF reader.kind = "dir" \/ readFails
    THEN [content |-> <<>>, err |-> ErrIO]
    ELSE [content |-> reader.data, err |-> NilErr]

\* ------------------------------------------------ LocalFileStorage, the rest
RECURSIVE ExtFrom(_, _)
\* scans back from position i for the dot of the last element
ExtFrom(p, i) ==
    IF i = 0 \/ p[i] = "/" THEN <<>>
    ELSE IF p[i] = "." THEN SubSeq(p, i, Len(p))
    ELSE ExtFrom(p, i - 1)

\* filepath.Ext
Ext(p) == ExtFrom(p, Len(p))

extTxt == <<".", "t", "x", "t">>
extJson == <<".", "j", "s", "o", "n">>
extJpg == <<".", "j", "p", "g">>
extJpeg == <<".", "j", "p", "e", "g">>
extPng == <<".", "p", "n", "g">>
extGif == <<".", "g", "i", "f">>
extPdf == <<".", "p", "d", "f">>
extMarkdown == <<".", "m", "a", "r", "k", "d", "o", "w", "n">>

getExtensionFromMimeType(mimeType) ==
    CASE mimeType = "text/markdown" -> extMd
      [] mimeType = "text/plain" -> extTxt
      [] mimeType = "application/json" -> extJson
      [] mimeType = "image/jpeg" -> extJpg
      [] mimeType = "image/png" -> extPng
      [] mimeType = "image/gif" -> extGif
      [] mimeType = "application/pdf" -> extPdf
      [] OTHER -> <<>>

getMimeTypeFromExtension(extension) ==
    LET ext == ToLower(extension)
    IN  CASE ext \in {extMd, extMarkdown} -> "text/markdown"
          [] ext = extTxt -> "text/plain"
          [] ext = extJson -> "application/json"
          [] ext \in {extJpg, extJpeg} -> "image/jpeg"
          [] ext = extPng -> "image/png"
          [] ext = extGif -> "image/gif"
          [] ext = extPdf -> "application/pdf"
          [] OTHER -> "application/octet-stream"

\* the file system with entry e at p
SetEntry(fsys, p, e) == [q \in DOMAIN fsys \cup {p} |-> IF q = p THEN e ELSE fsys[q]]

\* the file system without the entry at p
RemoveEntry(fsys, p) == [q \in DOMAIN fsys \ {p} |-> fsys[q]]

\* something exists below the directory dir
HasChildren(fsys, dir) ==
    \E q \in DOMAIN fsys : Exists(fsys, q) /\ HasPrefix(q, dir \o <<"/">>)

\* filepath.Dir of a rooted path
Dir(p) ==
    LET segs == CleanSegments(SplitPath(p, <<>>), <<>>)
    IN  IF Len(segs) <= 1 THEN <<"/">> ELSE JoinSegments(SubSeq(segs, 1, Len(segs) - 1))

RECURSIVE MkdirAll(_, _)
\* os.MkdirAll: the directory and the parents it lacks
MkdirAll(fsys, dir) ==
    IF dir = <<"/">> \/ Exists(fsys, dir) THEN fsys
    ELSE SetEntry(MkdirAll(fsys, Dir(dir)), dir, DirEntry)

\* os.Remove: a file, or a directory with nothing in it
CanRemove(fsys, p) == fsys[p].kind = "file" \/ ~HasChildren(fsys, p)

ErrNilReader == <<"file reader cannot be nil">>
ErrNoFilename == <<"filename cannot be empty">>
ErrEmptyFile == <<"file is empty">>

\* a nil io.Reader, and a reader over content
NilFile == <<>>
FileOf(content) == <<content>>

\* UploadFile returning the unique file name for the relative path
UploadFile_ReturnsFilename(relativePath, uniqueFilename) == uniqueFilename

\* the path UploadFile returns: relativePath with "/" for "\"
UploadedPath(relativePath, uniqueFilename) == relativePath

\* UploadFile storing the upload under its original file name
UniqueFilename_Original(uniqueID, filename, ext) == filename

\* uniqueFilename := uniqueID + ext
UniqueFilename(uniqueID, filename, ext) == uniqueID \o ext

\* UploadFile leaving the file it created where it is
RemoveFailedUpload_Kept(fsys, fullPath) == fsys

\* os.Remove(fullPath) after a failed copy or an empty upload
RemoveFailedUpload(fsys, fullPath) == RemoveEntry(fsys, fullPath)

\* LocalFileStorage.UploadFile; n: which draw of uuid.New this is; fault: the
\* step of the upload the operating system fails, if any
UploadFile(fsys, n, file, filename, mimeType, fault) ==
    IF file = NilFile
    THEN [fs |-> fsys, path |-> <<>>, err |-> ErrNilReader, touched |-> {}]
    ELSE IF filename = <<>>
    THEN [fs |-> fsys, path |-> <<>>, err |-> ErrNoFilename, touched |-> {}]
    ELSE LET uniqueID == uuidString(n)
             ext == IF Ext(filename) = <<>> THEN getExtensionFromMimeType(mimeType)
                    ELSE Ext(filename)
             uniqueFilename == UniqueFilename(uniqueID, filename, ext)
             relativePath == Tail(Join(sUploads, uniqueFilename))
             fullPath == Join(baseDir, relativePath)
             uploadDir == Dir(fullPath)
             made == MkdirAll(fsys, uploadDir)
             created == SetEntry(made, fullPath, FileEntry(<<>>))
             bytesWritten == Len(Source(file[1]))
         IN  IF fault = "mkdir"
             THEN [fs |-> fsys, path |-> <<>>,
                   err |-> Wrap("failed to create upload directory", ErrPermission),
                   touched |-> {uploadDir}]
             ELSE IF fault = "create"
             THEN [fs |-> made, path |-> <<>>,
                   err |-> Wrap("failed to create file", ErrPermission),
                   touched |-> {uploadDir, fullPath}]
             ELSE IF fault = "copy"
             THEN [fs |-> RemoveFailedUpload(created, fullPath), path |-> <<>>,
                   err |-> Wrap("failed to write file content", ErrIO),
                   touched |-> {uploadDir, fullPath}]
             ELSE IF bytesWritten = 0
             THEN [fs |-> RemoveFailedUpload(created, fullPath), path |-> <<>>,
                   err |-> ErrEmptyFile,
                   touched |-> {uploadDir, fullPath}]
             ELSE [fs |-> SetEntry(created, fullPath, FileEntry(file[1])),
                   path |-> UploadedPath(relativePath, uniqueFilename),
                   err |-> NilErr, touched |-> {uploadDir, fullPath}]

\* DeleteFile treating a missing file as deleted
DeleteMissing_Ignored(fsys, path, fullPath) ==
    [fs |-> fsys, err |-> NilErr, touched |-> {fullPath}]

\* the return DeleteFile takes when os.Remove reports that nothing is there
DeleteMissing(fsys, path, fullPath) ==
    [fs |-> fsys, err |-> ErrNotFound, touched |-> {fullPath}]

\* LocalFileStorage.DeleteFile; removeFails: os.Remove fails on what is there
DeleteFile(fsys, path, removeFails) ==
    IF path = <<>> THEN [fs |-> fsys, err |-> ErrPathEmpty, touched |-> {}]
    ELSE LET fullPath == Join(baseDir, path)
             absBaseDir == Abs(baseDir)
             absFullPath == Abs(fullPath)
         IN  IF ~HasPrefix(absFullPath, absBaseDir)
             THEN [fs |-> fsys, err |-> ErrTraversal, touched |-> {}]
             ELSE IF ~Exists(fsys, fullPath)
             THEN DeleteMissing(fsys, path, fullPath)
             ELSE IF removeFails \/ ~CanRemove(fsys, fullPath)
             THEN [fs |-> fsys, err |-> Wrap("failed to delete file", ErrPermission),
                   touched |-> {fullPath}]
             ELSE [fs |-> RemoveEntry(fsys, fullPath), err |-> NilErr,
                   touched |-> {fullPath}]

\* LocalFileStorage.FileExists; statFails: os.Stat fails on what is there
FileExists(fsys, path, statFails) ==
    IF path = <<>> THEN [exists |-> FALSE, err |-> ErrPathEmpty, touched |-> {}]
    ELSE LET fullPath == Join(baseDir, path)
             absBaseDir == Abs(baseDir)
             absFullPath == Abs(fullPath)
         IN  IF ~HasPrefix(absFullPath, absBaseDir)
             THEN [exists |-> FALSE, err |-> ErrTraversal, touched |-> {}]
             ELSE IF ~Exists(fsys, fullPath)
             THEN [exists |-> FALSE, err |-> NilErr, touched |-> {fullPath}]
             ELSE IF statFails
             THEN [exists |-> FALSE,
                   err |-> Wrap("failed to check file existence", ErrPermission),
                   touched |-> {fullPath}]
             ELSE [exists |-> TRUE, err |-> NilErr, touched |-> {fullPath}]

NoInfo == <<>>

\* GetFileInfo reporting the path on disk for the path it was given
GetFileInfo_FullPath(fsys, path, statFails) ==
    LET fullPath == Join(baseDir, path)
    IN  IF path = <<>> \/ ~Exists(fsys, fullPath) \/ statFails
        THEN [info |-> NoInfo, err |-> ErrNotFound, touched |-> {fullPath}]
        ELSE [info |-> <<[Path |-> fullPath,
                          Size |-> Len(Source(fsys[fullPath].data)),
                          MimeType |-> getMimeTypeFromExtension(Ext(path))]>>,
              err |-> NilErr, touched |-> {fullPath}]

\* LocalFileStorage.GetFileInfo; statFails: os.Stat fails on what is there
GetFileInfo(fsys, path, statFails) ==
    IF path = <<>> THEN [info |-> NoInfo, err |-> ErrPathEmpty, touched |-> {}]
    ELSE LET fullPath == Join(baseDir, path)
             absBaseDir == Abs(baseDir)
             absFullPath == Abs(fullPath)
         IN  IF ~HasPrefix(absFullPath, absBaseDir)
             THEN [info |-> NoInfo, err |-> ErrTraversal, touched |-> {}]
             ELSE IF ~Exists(fsys, fullPath)
             THEN [info |-> NoInfo, err |-> ErrNotFound, touched |-> {fullPath}]
             ELSE IF statFails
             THEN [info |-> NoInfo, err |-> Wrap("failed to get file info", ErrPermission),
                   touched |-> {fullPath}]
             ELSE [info |-> <<[Path |-> path,
                               Size |-> Len(Source(fsys[fullPath].data)),
                               MimeType |-> getMimeTypeFromExtension(Ext(path))]>>,
                   err |-> NilErr, touched |-> {fullPath}]

\* ------------------------------------------------ ProcessMarkdownFromFile
\* GetFileFailed formatting the error's text into a new error (%v for %w)
GetFileFailed_Unchained(err) == [content |-> NilContent, err |-> <<"failed to read file">>]

\* the return taken when s.fileStorage.GetFile fails
GetFileFailed(err) == [content |-> NilContent, err |-> Wrap("failed to read file", err)]

\* the return taken when io.ReadAll fails
ReadFailed(err) ==
    [content |-> NilContent, err |-> Wrap("failed to read file content", err)]

\* ProcessMarkdownFromFile(filePath) run from its call to its return
ProcessMarkdownFromFile(fsys, filePath, openFails, readFails, convertFails) ==
    LET g == GetFile(fsys, filePath, openFails)
    IN  IF g.err # NilErr THEN GetFileFailed(g.err)
        ELSE LET r == ReadAll(g.reader, readFails)
             IN  IF r.err # NilErr THEN ReadFailed(r.err)
                 ELSE ProcessMarkdown(r.content, convertFails)

\* the deferred Close forgotten
CloseDeferred_Skipped(r) == r

\* defer closer.Close(): the reader after the call has returned
CloseDeferred(r) == [r EXCEPT !.open = FALSE]

VARIABLES
    pc,       \* where the call in progress stands: idle, readall, process, returned
    op,       \* the operation called
    md,       \* the markdown text the call works on
    path,     \* the path argument of the call
    fs,       \* the file system under the storage
    reader,   \* the reader GetFile returned to the call
    calls,    \* what the call has invoked so far, in order
    cause,    \* the error the storage collaborator gave the call
    result,   \* what ProcessMarkdown / ProcessMarkdownFromFile returned
    items,    \* the image references and text the scanned source was written from
    found,    \* what findInternalImages returned
    faults,   \* the steps of the call that the environment made fail
    touched,  \* the paths the call handed to the os package
    sres,     \* what the LocalFileStorage operation returned
    uploaded, \* the content of each upload that succeeded and was not deleted since
    nextId,   \* how many values uuid.New has returned
    upload,   \* the arguments of the UploadFile call
    issued,   \* the paths the successful uploads have returned so far
    tasks,    \* the calls that run side by side, one per goroutine
    cells,    \* the local variables of those calls, by stack frame
    schedules, \* the rows of the schedules table, by ID
    fileRecs, \* the rows of the files table, by ID
    creator,  \* the user ID string of the request that created each schedule
    resp,     \* the HTTP request served last and the response it got
    flight,   \* the share and update requests being served, with their locals
    shared,   \* how many IncrementShareCount requests on each schedule were answered 200
    kv,       \* the keys of the Redis store: the file contents and files:list
    kvflight  \* the saveMarkdownFile and deleteMarkdownFile calls under way

storeVars == <<sres, uploaded, nextId, upload, issued>>
concVars == <<tasks, cells>>
webVars == <<schedules, fileRecs, creator, resp, flight, shared>>
kvVars == <<kv, kvflight>>
vars ==
    <<pc, op, md, path, fs, reader, calls, cause, result, items, found, faults,
      touched, sres, uploaded, nextId, upload, issued, tasks, cells, schedules,
      fileRecs, creator, resp, flight, shared, kv, kvflight>>

NoResult == [content |-> NilContent, err |-> NilErr]
NoFound == [images |-> <<>>, err |-> NilErr]
NoUpload == [file |-> NilFile, filename |-> <<>>, mimeType |-> ""]
NoStored == [path |-> <<>>, exists |-> FALSE, info |-> NoInfo, err |-> NilErr]

DocA == <<BlkH1, BlkPara>>
DocB == <<BlkH2, BlkParaImage>>
DocSibling == <<BlkAutoJs>>
DocOutside == <<BlkH2>>

\* how many calls run side by side
NumCalls == 2
Tasks == 1..NumCalls

NoTask ==
    [pc |-> "idle", op |-> "none", arg |-> <<>>, md |-> <<>>, faults |-> {},
     reader |-> NoReader, result |-> NoResult]
NoCell == [html |-> <<>>, title |-> <<>>, description |-> <<>>]

\* ------------------------------------------------------- uuid and the users
HexChars ==
    <<"0", "1", "2", "3", "4", "5", "6", "7", "8", "9", "a", "b", "c", "d", "e", "f">>
HexDigits == {HexChars[i] : i \in 1..Len(HexChars)}
HexValue(c) == (CHOOSE i \in 1..Len(HexChars) : HexChars[i] = ToLowerChar(c)) - 1

\* uuid.Nil; a UUID is the values of its hexadecimal digits
NilUUID == <<0, 0>>
ErrInvalidUUID == <<"invalid UUID">>

\* uuid.Parse(s): the digits of s, which may be written in either letter case
ParseUUID(s) ==
    IF Len(s) = Len(NilUUID) /\ \A i \in 1..Len(s) : ToLowerChar(s[i]) \in HexDigits
    THEN [id |-> [i \in 1..Len(s) |-> HexValue(s[i])], err |-> NilErr]
    ELSE [id |-> NilUUID, err |-> ErrInvalidUUID]

\* UUID.String(): the digits in lower case
UUIDString(u) == [i \in 1..Len(u) |-> HexChars[u[i] + 1]]

\* uuid.NewSHA1(uuid.NameSpaceOID, data): a version 5 UUID from a digest of data
NewSHA1(data) == <<5, Len(data) % Len(HexChars)>>

\* uuid.New() for the n-th row of a table
NewUUID(n) == <<0, n>>

\* the user ID of AdminLogin's tokens, "admin-user-123", and a user whose ID is
\* a UUID, written "ac" in one token and "AC" in another
sAdminUser == <<"a", "d", "m", "i", "n", "-", "u", "s", "e", "r", "-", "1", "2", "3">>
sUserLower == <<"a", "c">>
sUserUpper == <<"A", "C">>

\* uuid.Parse(userIDStr), uuid.NewSHA1 of the string when it is not a UUID
UserUUID(userIDStr) ==
    LET parsed == ParseUUID(userIDStr)
    IN IF parsed.err # NilErr THEN NewSHA1(userIDStr) ELSE parsed.id

\* ------------------------------------------------- tokens and AuthMiddleware
NoClaims == [UserID |-> <<>>, Role |-> "", expired |-> FALSE]
Claims(userID, role) == [UserID |-> userID, Role |-> role, expired |-> FALSE]
ErrSignature == <<"signature is invalid">>
ErrTokenExpired == <<"token is expired">>

\* the tokens a request can carry: signed by the service for the administrator,
\* for the user under either spelling of the ID and for nobody with a role,
\* signed with another key, and signed by the service a day or more ago
Tokens == {"tAdmin", "tUser", "tUpper", "tNoRole", "tForged", "tExpired"}

\* jwt.ParseWithClaims with the key of the service
ParseWithClaims(tokenString) ==
    CASE tokenString = <<"tAdmin">> -> [claims |-> Claims(sAdminUser, "admin"), err |-> NilErr]
      [] tokenString = <<"tUser">> -> [claims |-> Claims(sUserLower, "user"), err |-> NilErr]
      [] tokenString = <<"tUpper">> -> [claims |-> Claims(sUserUpper, "user"), err |-> NilErr]
      [] tokenString = <<"tNoRole">> -> [claims |-> Claims(sUserLower, ""), err |-> NilErr]
      [] tokenString = <<"tExpired">> -> [claims |-> NoClaims, err |-> ErrTokenExpired]
      [] OTHER -> [claims |-> NoClaims, err |-> ErrSignature]

\* CustomClaims.IsValid
IsValid(c) == c.UserID # <<>> /\ c.Role # ""
\* CustomClaims.IsExpired
IsExpired(c) == c.expired

\* JWTService.ValidateToken(tokenString)
ValidateToken(tokenString) ==
    LET parsed == ParseWithClaims(tokenString)
    IN IF parsed.err # NilErr
       THEN [claims |-> NoClaims, err |-> Wrap("failed to parse token", parsed.err)]
       ELSE IF ~IsValid(parsed.claims)
       THEN [claims |-> NoClaims, err |-> <<"invalid claims">>]
       ELSE IF IsExpired(parsed.claims)
       THEN [claims |-> NoClaims, err |-> <<"token expired">>]
       ELSE [claims |-> parsed.claims, err |-> NilErr]

sBearer == <<"B", "e", "a", "r", "e", "r", " ">>
sToken == <<"T", "o", "k", "e", "n", ":", " ">>

\* extractTokenFromHeader taking what follows the first seven characters of any
\* header
extractTokenFromHeader_AnyScheme(authHeader) == SubSeq(authHeader, 8, Len(authHeader))

\* extractTokenFromHeader(authHeader): what follows "Bearer "
extractTokenFromHeader(authHeader) ==
    IF Len(authHeader) > 7 /\ SubSeq(authHeader, 1, 7) = sBearer
    THEN SubSeq(authHeader, 8, Len(authHeader))
    ELSE <<>>

\* the gin context past the middleware: the keys userID and userRole
NoCtx == [exists |-> FALSE, userID |-> <<>>, userRole |-> ""]
\* c.AbortWithStatusJSON(status, ...)
Abort(status) == [next |-> FALSE, status |-> status, ctx |-> NoCtx]

\* AuthMiddleware(config) with config.RequiredRole = requiredRole, on a request
\* with the Authorization header authHeader; next: c.Next() is reached
AuthMiddleware(requiredRole, authHeader) ==
    IF authHeader = <<>> THEN Abort(401)
    ELSE LET token == extractTokenFromHeader(authHeader)
         IN IF token = <<>> THEN Abort(401)
            ELSE LET v == ValidateToken(token)
                 IN IF v.err # NilErr THEN Abort(401)
                    ELSE IF requiredRole # "" /\ v.claims.Role # requiredRole
                    THEN Abort(403)
                    ELSE [next |-> TRUE, status |-> 200,
                          ctx |-> [exists |-> TRUE, userID |-> v.claims.UserID,
                                   userRole |-> v.claims.Role]]

\* the routes of main and the middleware in front of each: none on /api,
\* AdminOnlyMiddleware on /api/admin, AuthMiddleware(nil) on /api/user
PublicRoutes == {"GetSchedule", "IncrementShareCount", "Upload"}
AdminRoutes == {"Dashboard"}
UserRoutes == {"CreateSchedule", "UpdateSchedule", "DeleteSchedule"}

RouteMiddleware(route, authHeader) ==
    CASE route \in PublicRoutes -> [next |-> TRUE, status |-> 200, ctx |-> NoCtx]
      [] route \in AdminRoutes -> AuthMiddleware("admin", authHeader)
      [] OTHER -> AuthMiddleware("", authHeader)

\* ---------------------------------------------------------- ScheduleHandler
\* the files table at the start: the row of the stored file "a"
InitialFiles ==
    [id \in {<<15, 10>>} |->
        [Filename |-> <<"a">>, FilePath |-> <<"a">>, FileSize |-> Len(Source(DocA)),
         MimeType |-> "application/octet-stream"]]

\* how many schedules a run creates at most
MaxSchedules == 1

NoBody == <<>>
Reply(scheds, fsys, status, body, fl) ==
    [schedules |-> scheds, fs |-> fsys, status |-> status, body |-> body, faults |-> fl]

PutRow(table, id, row) == [x \in DOMAIN table \cup {id} |-> IF x = id THEN row ELSE table[x]]

NoSchedule ==
    [ID |-> NilUUID, UserID |-> NilUUID, Title |-> <<>>, IsPublic |-> FALSE,
     FileID |-> NilUUID, ShareCount |-> 0, Deleted |-> FALSE]

\* ScheduleRepository.GetByID(id): the row, unless it is missing or soft-deleted
GetByID(scheds, id) ==
    IF id \in DOMAIN scheds /\ ~scheds[id].Deleted
    THEN [schedule |-> scheds[id], err |-> NilErr]
    ELSE [schedule |-> NoSchedule, err |-> <<"record not found">>]

\* ScheduleRepository.Update(schedule): db.Save writes every column of the row
Update(scheds, schedule) == PutRow(scheds, schedule.ID, schedule)

\* ScheduleRepository.Delete(id): the row gets its DeletedAt
Delete(scheds, id) ==
    [x \in DOMAIN scheds |-> IF x = id THEN [scheds[x] EXCEPT !.Deleted = TRUE] ELSE scheds[x]]

\* Schedule.IncrementShareCount
IncrementShareCount(schedule) == [schedule EXCEPT !.ShareCount = @ + 1]

\* ScheduleHandler.scheduleToResponse
scheduleToResponse(schedule) ==
    [ID |-> UUIDString(schedule.ID), UserID |-> UUIDString(schedule.UserID),
     Title |-> schedule.Title, IsPublic |-> schedule.IsPublic,
     FileID |-> UUIDString(schedule.FileID), ShareCount |-> schedule.ShareCount]

\* the ownership check passing for every caller
CheckOwnership_Anyone(schedule, userID) == TRUE

\* the ownership check of UpdateSchedule and DeleteSchedule
CheckOwnership(schedule, userID) == schedule.UserID = userID

\* a JSON body that does not bind, and the bodies that do
BadJSON == [valid |-> FALSE]
\* a request with no body to bind
NoJSON == [valid |-> TRUE]

\* ScheduleHandler.CreateSchedule; n: the number of the row uuid.New names
CreateSchedule(scheds, fsys, ctx, req, n, dbFails) ==
    IF ~req.valid \/ req.Title = <<>> \/ req.FileID = <<>>
    THEN Reply(scheds, fsys, 400, NoBody, {})
    ELSE IF ~ctx.exists THEN Reply(scheds, fsys, 401, NoBody, {})
    ELSE LET userID == UserUUID(ctx.userID)
             fileID == ParseUUID(req.FileID)
         IN IF fileID.err # NilErr THEN Reply(scheds, fsys, 400, NoBody, {})
            ELSE LET schedule ==
                         [ID |-> NewUUID(n), UserID |-> userID, Title |-> req.Title,
                          IsPublic |-> req.IsPublic, FileID |-> fileID.id,
                          ShareCount |-> 0, Deleted |-> FALSE]
                 IN IF dbFails THEN Reply(scheds, fsys, 500, NoBody, {"db"})
                    ELSE Reply(PutRow(scheds, schedule.ID, schedule), fsys, 201,
                               <<scheduleToResponse(schedule)>>, {})

\* ScheduleHandler.GetSchedule
GetSchedule(scheds, fsys, ctx, idStr) ==
    LET id == ParseUUID(idStr)
    IN IF id.err # NilErr THEN Reply(scheds, fsys, 400, NoBody, {})
       ELSE LET got == GetByID(scheds, id.id)
            IN IF got.err # NilErr THEN Reply(scheds, fsys, 404, NoBody, {})
               ELSE IF (~ctx.exists \/ UUIDString(got.schedule.UserID) # ctx.userID)
                       /\ ~got.schedule.IsPublic
               THEN Reply(scheds, fsys, 403, NoBody, {})
               ELSE Reply(scheds, fsys, 200, <<scheduleToResponse(got.schedule)>>, {})

\* the fields of an UpdateScheduleRequest that are there, written over the row
ApplyUpdate(schedule, req) ==
    [schedule EXCEPT !.Title = IF req.Title # <<>> THEN req.Title[1] ELSE @,
                     !.IsPublic = IF req.IsPublic # <<>> THEN req.IsPublic[1] ELSE @]

\* ScheduleHandler.UpdateSchedule as far as the row is read, checked and
\* changed in memory; status 200: the row is ready to be saved
LoadForUpdate(scheds, ctx, idStr, req) ==
    LET id == ParseUUID(idStr)
    IN IF id.err # NilErr THEN [status |-> 400, schedule |-> NoSchedule]
       ELSE IF ~req.valid THEN [status |-> 400, schedule |-> NoSchedule]
       ELSE IF ~ctx.exists THEN [status |-> 401, schedule |-> NoSchedule]
       ELSE LET userID == UserUUID(ctx.userID)
                got == GetByID(scheds, id.id)
            IN IF got.err # NilErr THEN [status |-> 404, schedule |-> NoSchedule]
               ELSE IF ~CheckOwnership(got.schedule, userID)
               THEN [status |-> 403, schedule |-> NoSchedule]
               ELSE [status |-> 200, schedule |-> ApplyUpdate(got.schedule, req)]

\* ScheduleHandler.UpdateSchedule
UpdateSchedule(scheds, fsys, ctx, idStr, req, dbFails) ==
    LET loaded == LoadForUpdate(scheds, ctx, idStr, req)
    IN IF loaded.status # 200 THEN Reply(scheds, fsys, loaded.status, NoBody, {})
       ELSE IF dbFails THEN Reply(scheds, fsys, 500, NoBody, {"db"})
       ELSE Reply(Update(scheds, loaded.schedule), fsys, 200,
                  <<scheduleToResponse(loaded.schedule)>>, {})

\* ScheduleHandler.IncrementShareCount as far as the row is read and counted up
\* in memory; status 200: the row is ready to be saved
LoadForShare(scheds, idStr) ==
    LET id == ParseUUID(idStr)
    IN IF id.err # NilErr THEN [status |-> 400, schedule |-> NoSchedule]
       ELSE LET got == GetByID(scheds, id.id)
            IN IF got.err # NilErr THEN [status |-> 404, schedule |-> NoSchedule]
               ELSE [status |-> 200, schedule |-> IncrementShareCount(got.schedule)]

\* ScheduleHandler.DeleteSchedule; the error of DeleteFile is dropped
DeleteSchedule(scheds, recs, fsys, ctx, idStr, removeFails, dbFails) ==
    LET id == ParseUUID(idStr)
    IN IF id.err # NilErr THEN Reply(scheds, fsys, 400, NoBody, {})
       ELSE IF ~ctx.exists THEN Reply(scheds, fsys, 401, NoBody, {})
       ELSE LET userID == UserUUID(ctx.userID)
                got == GetByID(scheds, id.id)
            IN IF got.err # NilErr THEN Reply(scheds, fsys, 404, NoBody, {})
               ELSE IF ~CheckOwnership(got.schedule, userID)
               THEN Reply(scheds, fsys, 403, NoBody, {})
               ELSE LET filePath == recs[got.schedule.FileID].FilePath
                        deleted == DeleteFile(fsys, filePath, removeFails)
                        failed ==
                            IF deleted # DeleteFile(fsys, filePath, FALSE)
                            THEN {"remove"} ELSE {}
                    IN IF dbFails
                       THEN Reply(scheds, deleted.fs, 500, NoBody, failed \cup {"db"})
                       ELSE Reply(Delete(scheds, id.id), deleted.fs, 204, NoBody, failed)

\* the handler of GET /api/admin/dashboard
Dashboard(scheds, fsys, ctx) ==
    Reply(scheds, fsys, 200, <<[user_id |-> ctx.userID, user_role |-> ctx.userRole]>>, {})

NoResp ==
    [header |-> <<>>, id |-> <<>>, bound |-> TRUE, status |-> 0, ran |-> FALSE,
     ctx |-> NoCtx, body |-> NoBody]

NoKeys == [files |-> <<>>, list |-> <<>>]

Init ==
    /\ pc = "idle"
    /\ op = "none"
    /\ md = <<>>
    /\ path = <<>>
    /\ fs = [p \in FsPaths |->
               CASE p = pathBase -> DirEntry
                 [] p = pathA -> FileEntry(DocA)
                 [] p = pathSibling -> FileEntry(DocSibling)
                 [] p = pathOutside -> FileEntry(DocOutside)
                 [] OTHER -> NoEntry]
    /\ reader = NoReader
    /\ calls = <<>>
    /\ cause = NilErr
    /\ result = NoResult
    /\ items = <<>>
    /\ found = NoFound
    /\ faults = {}
    /\ touched = {}
    /\ sres = NoStored
    /\ uploaded = <<>>
    /\ nextId = 0
    /\ upload = NoUpload
    /\ issued = {}
    /\ tasks = [t \in Tasks |-> NoTask]
    /\ cells = [t \in Tasks |-> NoCell]
    /\ schedules = <<>>
    /\ fileRecs = InitialFiles
    /\ creator = <<>>
    /\ resp = NoResp
    /\ flight = EmptyBag
    /\ shared = <<>>
    /\ kv = NoKeys
    /\ kvflight = EmptyBag

\* MarkdownService.ProcessMarkdown(markdownContent)
CallProcessMarkdown ==
    /\ pc = "idle"
    /\ \E d \in Docs, f \in BOOLEAN :
         /\ f \in ConvertFailures(d)
         /\ md' = d
         /\ result' = ProcessMarkdown(d, f)
         /\ faults' = IF f THEN {"convert"} ELSE {}
    /\ op' = "ProcessMarkdown"
    /\ calls' = <<"ProcessMarkdown">>
    /\ pc' = "returned"
    /\ UNCHANGED <<path, fs, reader, cause, items, found, touched, storeVars, concVars, webVars, kvVars>>

\* MarkdownService.findInternalImages(markdownContent)
CallFindInternalImages ==
    /\ pc = "idle"
    /\ \E its \in ItemSeqs :
         /\ items' = its
         /\ md' = ItemsSource(its)
         /\ found' = findInternalImages(ItemsSource(its))
    /\ op' = "findInternalImages"
    /\ calls' = <<"findInternalImages">>
    /\ pc' = "returned"
    /\ UNCHANGED <<path, fs, reader, cause, result, faults, touched, storeVars, concVars, webVars, kvVars>>

\* ProcessMarkdownFromFile(filePath), up to the check of GetFile's error; os.Open
\* can fail only where there is something to open
FromFileGetFile ==
    /\ pc = "idle"
    /\ \E p \in PathArgs, openFails \in BOOLEAN :
         LET r == GetFile(fs, p, openFails)
         IN  /\ openFails => GetFile(fs, p, FALSE).err = NilErr
             /\ path' = p
             /\ touched' = r.touched
             /\ faults' = IF openFails THEN {"open"} ELSE {}
             /\ IF r.err # NilErr
                THEN /\ result' = GetFileFailed(r.err)
                     /\ cause' = r.err
                     /\ pc' = "returned"
                     /\ UNCHANGED reader
                ELSE /\ reader' = r.reader
                     /\ pc' = "readall"
                     /\ UNCHANGED <<result, cause>>
    /\ op' = "ProcessMarkdownFromFile"
    /\ calls' = <<"GetFile">>
    /\ UNCHANGED <<md, fs, items, found, storeVars, concVars, webVars, kvVars>>

\* ProcessMarkdownFromFile: io.ReadAll and the check of its error; the deferred
\* Close runs when the call returns
FromFileReadAll ==
    /\ pc = "readall"
    /\ \E readFails \in BOOLEAN :
         LET r == ReadAll(reader, readFails)
         IN  /\ readFails => reader.kind = "file"
             /\ faults' = IF readFails THEN faults \cup {"read"} ELSE faults
             /\ IF r.err # NilErr
                THEN /\ result' = ReadFailed(r.err)
                     /\ cause' = r.err
                     /\ reader' = CloseDeferred(reader)
                     /\ pc' = "returned"
                     /\ UNCHANGED md
                ELSE /\ md' = r.content
                     /\ pc' = "process"
                     /\ UNCHANGED <<result, cause, reader>>
    /\ calls' = Append(calls, "ReadAll")
    /\ UNCHANGED <<op, path, fs, items, found, touched, storeVars, concVars, webVars, kvVars>>

\* ProcessMarkdownFromFile deleting the file it has processed
FromFileProcess_DeletesFile ==
    /\ pc = "process"
    /\ \E f \in BOOLEAN :
         /\ f \in ConvertFailures(md)
         /\ result' = ProcessMarkdown(md, f)
         /\ faults' = IF f THEN faults \cup {"convert"} ELSE faults
    /\ reader' = CloseDeferred(reader)
    /\ calls' = calls \o <<"ProcessMarkdown", "DeleteFile">>
    /\ fs' = DeleteFile(fs, path, FALSE).fs
    /\ pc' = "returned"
    /\ UNCHANGED <<op, md, path, cause, items, found, touched, storeVars, concVars, webVars, kvVars>>

\* ProcessMarkdownFromFile: return s.ProcessMarkdown(string(content)), then the
\* deferred Close
FromFileProcess ==
    /\ pc = "process"
    /\ \E f \in BOOLEAN :
         /\ f \in ConvertFailures(md)
         /\ result' = ProcessMarkdown(md, f)
         /\ faults' = IF f THEN faults \cup {"convert"} ELSE faults
    /\ reader' = CloseDeferred(reader)
    /\ calls' = Append(calls, "ProcessMarkdown")
    /\ pc' = "returned"
    /\ UNCHANGED <<op, md, path, fs, cause, items, found, touched, storeVars, concVars, webVars, kvVars>>

\* the caller takes the result; the next call can start
Return ==
    /\ pc = "returned"
    /\ pc' = "idle"
    /\ op' = "none"
    /\ md' = <<>>
    /\ path' = <<>>
    /\ reader' = NoReader
    /\ calls' = <<>>
    /\ cause' = NilErr
    /\ result' = NoResult
    /\ items' = <<>>
    /\ found' = NoFound
    /\ faults' = {}
    /\ touched' = {}
    /\ sres' = NoStored
    /\ upload' = NoUpload
    /\ resp' = NoResp
    /\ UNCHANGED <<fs, uploaded, nextId, issued, concVars, schedules, fileRecs, creator,
                   flight, shared, kvVars>>

Next ==
    \/ CallProcessMarkdown
    \/ CallFindInternalImages
    \/ FromFileGetFile
    \/ FromFileReadAll
    \/ FromFileProcess
    \/ Return

Spec == Init /\ [][Next]_vars

\* ------------------------------------------------ calls of LocalFileStorage
\* what the callers upload: nothing, or a document
UploadContents == {<<>>, DocA, DocB}
UploadFiles == {NilFile} \cup {FileOf(c) : c \in UploadContents}
\* file names "", "t.md", "n"
UploadNames == {<<>>, <<"t", ".", "m", "d">>, <<"n">>}
UploadMimes == {"text/markdown", "application/zip"}
UploadFaults == {"none", "mkdir", "create", "copy"}

\* the uploads whose file is not the one at fullPath
Forget(up, fullPath) ==
    [q \in {x \in DOMAIN up : Join(baseDir, x) # fullPath} |-> up[q]]

\* LocalFileStorage.UploadFile(file, filename, mimeType); a call that gets as far
\* as uuid.New draws the next value
CallUploadFile ==
    /\ pc = "idle"
    /\ \E file \in UploadFiles, filename \in UploadNames, mimeType \in UploadMimes,
          fault \in UploadFaults :
         LET draws == file # NilFile /\ filename # <<>>
             r == UploadFile(fs, nextId + 1, file, filename, mimeType, fault)
         IN  /\ draws => nextId < MaxUploads
             /\ fault # "none" => draws
             /\ md' = IF file = NilFile THEN <<>> ELSE file[1]
             /\ fs' = r.fs
             /\ touched' = r.touched
             /\ faults' = {fault} \ {"none"}
             /\ sres' = [NoStored EXCEPT !.path = r.path, !.err = r.err]
             /\ uploaded' = IF r.err = NilErr THEN SetEntry(uploaded, r.path, file[1])
                            ELSE uploaded
             /\ nextId' = IF draws THEN nextId + 1 ELSE nextId
             /\ upload' = [file |-> file, filename |-> filename, mimeType |-> mimeType]
             /\ issued' = IF r.err = NilErr THEN issued \cup {r.path} ELSE issued
    /\ op' = "UploadFile"
    /\ calls' = <<"UploadFile">>
    /\ pc' = "returned"
    /\ UNCHANGED <<path, reader, cause, result, items, found, concVars, webVars, kvVars>>

\* LocalFileStorage.DeleteFile(path); os.Remove can fail only on what it could
\* have removed
CallDeleteFile ==
    /\ pc = "idle"
    /\ \E p \in PathArgs, removeFails \in BOOLEAN :
         LET r == DeleteFile(fs, p, removeFails)
         IN  /\ removeFails => DeleteFile(fs, p, FALSE).err = NilErr
             /\ path' = p
             /\ fs' = r.fs
             /\ touched' = r.touched
             /\ faults' = IF removeFails THEN {"remove"} ELSE {}
             /\ sres' = [NoStored EXCEPT !.err = r.err]
             /\ uploaded' = IF r.err = NilErr THEN Forget(uploaded, Join(baseDir, p))
                            ELSE uploaded
    /\ op' = "DeleteFile"
    /\ calls' = <<"DeleteFile">>
    /\ pc' = "returned"
    /\ UNCHANGED <<md, reader, cause, result, items, found, nextId, upload, issued,
                   concVars, webVars, kvVars>>

\* LocalFileStorage.FileExists(path)
CallFileExists ==
    /\ pc = "idle"
    /\ \E p \in PathArgs, statFails \in BOOLEAN :
         LET r == FileExists(fs, p, statFails)
         IN  /\ statFails => FileExists(fs, p, FALSE).exists
             /\ path' = p
             /\ touched' = r.touched
             /\ faults' = IF statFails THEN {"stat"} ELSE {}
             /\ sres' = [NoStored EXCEPT !.exists = r.exists, !.err = r.err]
    /\ op' = "FileExists"
    /\ calls' = <<"FileExists">>
    /\ pc' = "returned"
    /\ UNCHANGED <<md, fs, reader, cause, result, items, found, uploaded, nextId,
                   upload, issued, concVars, webVars, kvVars>>

\* LocalFileStorage.GetFileInfo(path)
CallGetFileInfo ==
    /\ pc = "idle"
    /\ \E p \in PathArgs, statFails \in BOOLEAN :
         LET r == GetFileInfo(fs, p, statFails)
         IN  /\ statFails => GetFileInfo(fs, p, FALSE).err = NilErr
             /\ path' = p
             /\ touched' = r.touched
             /\ faults' = IF statFails THEN {"stat"} ELSE {}
             /\ sres' = [NoStored EXCEPT !.info = r.info, !.err = r.err]
    /\ op' = "GetFileInfo"
    /\ calls' = <<"GetFileInfo">>
    /\ pc' = "returned"
    /\ UNCHANGED <<md, fs, reader, cause, result, items, found, uploaded, nextId,
                   upload, issued, concVars, webVars, kvVars>>

\* the storage in use: uploads, deletions, look-ups, and the markdown service
\* reading what is stored
NextStorage ==
    \/ CallUploadFile
    \/ CallDeleteFile
    \/ CallFileExists
    \/ CallGetFileInfo
    \/ FromFileGetFile
    \/ FromFileReadAll
    \/ FromFileProcess
    \/ Return

SpecStorage == Init /\ [][NextStorage]_vars


\* ------------------------------------------------ calls side by side
\* what the concurrent callers pass
ConcDocs == {DocA, DocB, <<BlkLinkJs>>}
\* "a", "b", "../d2/s"
ConcPaths == {<<"a">>, <<"b">>, <<".", ".", "/", "d", "2", "/", "s">>}

\* every call using one set of variables, as package-level variables would be
FrameOf_Shared(t) == CHOOSE u \in Tasks : \A v \in Tasks : u <= v

\* where call t keeps buf, title and description: they are locals, so in its own
\* stack frame
FrameOf(t) == t

\* goroutine t calls ProcessMarkdown(markdownContent)
TaskCallProcessMarkdown ==
    /\ \E t \in Tasks, d \in ConcDocs :
         /\ tasks[t].pc = "idle"
         /\ tasks' = [tasks EXCEPT ![t] = [NoTask EXCEPT !.pc = "convert",
                                                           !.op = "ProcessMarkdown",
                                                           !.arg = d, !.md = d]]
         /\ cells' = [cells EXCEPT ![FrameOf(t)] = NoCell]
    /\ UNCHANGED <<pc, op, md, path, fs, reader, calls, cause, result, items, found,
                   faults, touched, storeVars, webVars, kvVars>>

\* goroutine t calls ProcessMarkdownFromFile(filePath): GetFile and the check of
\* its error
TaskGetFile ==
    /\ \E t \in Tasks, p \in ConcPaths, openFails \in BOOLEAN :
         LET r == GetFile(fs, p, openFails)
             k == [NoTask EXCEPT !.op = "ProcessMarkdownFromFile", !.arg = p,
                                 !.faults = IF openFails THEN {"open"} ELSE {}]
         IN  /\ tasks[t].pc = "idle"
             /\ openFails => GetFile(fs, p, FALSE).err = NilErr
             /\ tasks' = [tasks EXCEPT ![t] =
                            IF r.err # NilErr
                            THEN [k EXCEPT !.pc = "done", !.result = GetFileFailed(r.err)]
                            ELSE [k EXCEPT !.pc = "readall", !.reader = r.reader]]
    /\ UNCHANGED <<pc, op, md, path, fs, reader, calls, cause, result, items, found,
                   faults, touched, storeVars, cells, webVars, kvVars>>

\* goroutine t: io.ReadAll, the check of its error, the entry to ProcessMarkdown
TaskReadAll ==
    /\ \E t \in Tasks, readFails \in BOOLEAN :
         LET k == tasks[t]
             r == ReadAll(k.reader, readFails)
         IN  /\ k.pc = "readall"
             /\ readFails => k.reader.kind = "file"
             /\ IF r.err # NilErr
                THEN /\ tasks' = [tasks EXCEPT ![t] =
                                    [k EXCEPT !.pc = "done",
                                              !.faults = IF readFails THEN @ \cup {"read"}
                                                         ELSE @,
                                              !.reader = CloseDeferred(k.reader),
                                              !.result = ReadFailed(r.err)]]
                     /\ UNCHANGED cells
                ELSE /\ tasks' = [tasks EXCEPT ![t] =
                                    [k EXCEPT !.pc = "convert", !.md = r.content]]
                     /\ cells' = [cells EXCEPT ![FrameOf(t)] = NoCell]
    /\ UNCHANGED <<pc, op, md, path, fs, reader, calls, cause, result, items, found,
                   faults, touched, storeVars, webVars, kvVars>>

\* goroutine t: markdownToHTML writes buf and the check of its error
TaskConvert ==
    /\ \E t \in Tasks, f \in BOOLEAN :
         LET k == tasks[t]
             h == markdownToHTML(k.md, f)
         IN  /\ k.pc = "convert"
             /\ f \in ConvertFailures(k.md)
             /\ IF h.err # NilErr
                THEN /\ tasks' = [tasks EXCEPT ![t] =
                                    [k EXCEPT !.pc = "done",
                                              !.faults = @ \cup {"convert"},
                                              !.reader = CloseDeferred(k.reader),
                                              !.result =
                                                 [content |-> NilContent,
                                                  err |-> Wrap("failed to convert markdown to HTML",
                                                               h.err)]]]
                     /\ cells' = [cells EXCEPT ![FrameOf(t)] = NoCell]
                ELSE /\ tasks' = [tasks EXCEPT ![t].pc = "extract"]
                     /\ cells' = [cells EXCEPT ![FrameOf(t)].html = h.html]
    /\ UNCHANGED <<pc, op, md, path, fs, reader, calls, cause, result, items, found,
                   faults, touched, storeVars, webVars, kvVars>>

\* goroutine t: extractTitleAndDescription writes title and description
TaskExtract ==
    /\ \E t \in Tasks :
         LET td == extractTitleAndDescription(tasks[t].md)
         IN  /\ tasks[t].pc = "extract"
             /\ tasks' = [tasks EXCEPT ![t].pc = "images"]
             /\ cells' = [cells EXCEPT ![FrameOf(t)].title = td.title,
                                       ![FrameOf(t)].description = td.description]
    /\ UNCHANGED <<pc, op, md, path, fs, reader, calls, cause, result, items, found,
                   faults, touched, storeVars, webVars, kvVars>>

\* goroutine t: processImages, and the ProcessedContent put together from the
\* call's variables; the deferred Close of ProcessMarkdownFromFile
TaskImages ==
    /\ \E t \in Tasks :
         LET k == tasks[t]
             c == cells[FrameOf(t)]
             img == processImages(c.html)
         IN  /\ k.pc = "images"
             /\ tasks' = [tasks EXCEPT ![t] =
                            [k EXCEPT !.pc = "done",
                                      !.reader = CloseDeferred(k.reader),
                                      !.result =
                                         IF img.err # NilErr
                                         THEN [content |-> NilContent,
                                               err |-> Wrap("failed to process images",
                                                            img.err)]
                                         ELSE [content |-> <<[Title |-> c.title,
                                                              Description |-> c.description,
                                                              HTMLContent |-> img.html]>>,
                                               err |-> NilErr]]]
             /\ cells' = [cells EXCEPT ![FrameOf(t)] = NoCell]
    /\ UNCHANGED <<pc, op, md, path, fs, reader, calls, cause, result, items, found,
                   faults, touched, storeVars, webVars, kvVars>>

\* the caller of goroutine t takes the result
TaskReturn ==
    /\ \E t \in Tasks :
         /\ tasks[t].pc = "done"
         /\ tasks' = [tasks EXCEPT ![t] = NoTask]
    /\ UNCHANGED <<pc, op, md, path, fs, reader, calls, cause, result, items, found,
                   faults, touched, storeVars, cells, webVars, kvVars>>

NextConc ==
    \/ TaskCallProcessMarkdown
    \/ TaskGetFile
    \/ TaskReadAll
    \/ TaskConvert
    \/ TaskExtract
    \/ TaskImages
    \/ TaskReturn

SpecConc == Init /\ [][NextConc]_vars

\* ------------------------------------------------ requests for the schedules
\* the Authorization headers: none, "Bearer " alone, "Token: tAdmin", and
\* "Bearer " before each token
Headers == {<<>>, sBearer, sToken \o <<"tAdmin">>} \cup {sBearer \o <<t>> : t \in Tokens}

\* the :id parameters: the schedules there are, "09" and "zz"
IdArgs(scheds) == {UUIDString(id) : id \in DOMAIN scheds} \cup {<<"0", "9">>, <<"z", "z">>}

\* the bodies of POST /api/user/schedules: file_id "fa" or "zz", public or not
CreateBodies ==
    {BadJSON}
    \cup {[valid |-> TRUE, Title |-> <<"t">>, FileID |-> <<"z", "z">>, IsPublic |-> FALSE]}
    \cup {[valid |-> TRUE, Title |-> <<"t">>, FileID |-> <<"f", "a">>, IsPublic |-> b] :
            b \in BOOLEAN}

\* the bodies of PUT /api/user/schedules/:id: a new title, or is_public
UpdateBodies ==
    {BadJSON, [valid |-> TRUE, Title |-> <<<<"n">>>>, IsPublic |-> <<>>]}
    \cup {[valid |-> TRUE, Title |-> <<>>, IsPublic |-> <<b>>] : b \in BOOLEAN}

Injected(removeFails, dbFails) ==
    (IF removeFails THEN {"remove"} ELSE {}) \cup (IF dbFails THEN {"db"} ELSE {})

\* the response goes out: the one of the middleware when it aborted the
\* request, the one of the handler otherwise
Respond(route, h, idStr, req, mw, out) ==
    /\ op' = route
    /\ calls' = <<route>>
    /\ pc' = "returned"
    /\ schedules' = out.schedules
    /\ fs' = out.fs
    /\ faults' = out.faults
    /\ resp' = [header |-> h, id |-> idStr, bound |-> req.valid, status |-> out.status,
                ran |-> mw.next, ctx |-> mw.ctx, body |-> out.body]

\* POST /api/user/schedules
ServeCreateSchedule ==
    /\ pc = "idle"
    /\ Cardinality(DOMAIN schedules) < MaxSchedules
    /\ \E h \in Headers, req \in CreateBodies, dbFails \in BOOLEAN :
         LET mw == RouteMiddleware("CreateSchedule", h)
             n == Cardinality(DOMAIN schedules) + 1
             out == IF mw.next
                    THEN CreateSchedule(schedules, fs, mw.ctx, req, n, dbFails)
                    ELSE Reply(schedules, fs, mw.status, NoBody, {})
         IN /\ out.faults = Injected(FALSE, dbFails)
            /\ Respond("CreateSchedule", h, <<>>, req, mw, out)
            /\ creator' = IF out.status = 201
                          THEN PutRow(creator, NewUUID(n), mw.ctx.userID)
                          ELSE creator
    /\ UNCHANGED <<md, path, reader, cause, result, items, found, touched, storeVars,
                   concVars, fileRecs, flight, shared, kvVars>>

\* GET /api/schedules/:id
ServeGetSchedule ==
    /\ pc = "idle"
    /\ \E h \in Headers, idStr \in IdArgs(schedules) :
         LET mw == RouteMiddleware("GetSchedule", h)
             out == IF mw.next
                    THEN GetSchedule(schedules, fs, mw.ctx, idStr)
                    ELSE Reply(schedules, fs, mw.status, NoBody, {})
         IN Respond("GetSchedule", h, idStr, NoJSON, mw, out)
    /\ UNCHANGED <<md, path, reader, cause, result, items, found, touched, storeVars,
                   concVars, fileRecs, creator, flight, shared, kvVars>>

\* PUT /api/user/schedules/:id
ServeUpdateSchedule ==
    /\ pc = "idle"
    /\ \E h \in Headers, idStr \in IdArgs(schedules), req \in UpdateBodies,
          dbFails \in BOOLEAN :
         LET mw == RouteMiddleware("UpdateSchedule", h)
             out == IF mw.next
                    THEN UpdateSchedule(schedules, fs, mw.ctx, idStr, req, dbFails)
                    ELSE Reply(schedules, fs, mw.status, NoBody, {})
         IN /\ out.faults = Injected(FALSE, dbFails)
            /\ Respond("UpdateSchedule", h, idStr, req, mw, out)
    /\ UNCHANGED <<md, path, reader, cause, result, items, found, touched, storeVars,
                   concVars, fileRecs, creator, flight, shared, kvVars>>

\* DELETE /api/user/schedules/:id
ServeDeleteSchedule ==
    /\ pc = "idle"
    /\ \E h \in Headers, idStr \in IdArgs(schedules), removeFails \in BOOLEAN,
          dbFails \in BOOLEAN :
         LET mw == RouteMiddleware("DeleteSchedule", h)
             out == IF mw.next
                    THEN DeleteSchedule(schedules, fileRecs, fs, mw.ctx, idStr,
                                        removeFails, dbFails)
                    ELSE Reply(schedules, fs, mw.status, NoBody, {})
         IN /\ out.faults = Injected(removeFails, dbFails)
            /\ Respond("DeleteSchedule", h, idStr, NoJSON, mw, out)
    /\ UNCHANGED <<md, path, reader, cause, result, items, found, touched, storeVars,
                   concVars, fileRecs, creator, flight, shared, kvVars>>

\* GET /api/admin/dashboard
ServeDashboard ==
    /\ pc = "idle"
    /\ \E h \in Headers :
         LET mw == RouteMiddleware("Dashboard", h)
             out == IF mw.next
                    THEN Dashboard(schedules, fs, mw.ctx)
                    ELSE Reply(schedules, fs, mw.status, NoBody, {})
         IN Respond("Dashboard", h, <<>>, NoJSON, mw, out)
    /\ UNCHANGED <<md, path, reader, cause, result, items, found, touched, storeVars,
                   concVars, fileRecs, creator, flight, shared, kvVars>>

\* the API serving one request at a time
NextSchedule ==
    \/ ServeCreateSchedule
    \/ ServeGetSchedule
    \/ ServeUpdateSchedule
    \/ ServeDeleteSchedule
    \/ ServeDashboard
    \/ Return

SpecSchedule == Init /\ [][NextSchedule]_vars

\* ------------------------------------- requests served side by side
\* how many share requests a run answers with 200 at most
MaxShares == 2

Shares(id) == IF id \in DOMAIN shared THEN shared[id] ELSE 0

\* how many requests of the handler o on the schedule id are being served
Serving(o, id) ==
    LET rs == {r \in BagToSet(flight) : r.op = o /\ r.schedule.ID = id}
    IN BagCardinality([r \in rs |-> flight[r]])

\* POST /api/schedules/:id/share up to schedule.IncrementShareCount(); a
\* request answered 400 or 404 leaves nothing
ShareLoad ==
    /\ BagCardinality(flight) < NumCalls
    /\ \E idStr \in IdArgs(schedules) :
         LET loaded == LoadForShare(schedules, idStr)
         IN IF loaded.status # 200
            THEN UNCHANGED flight
            ELSE /\ Serving("IncrementShareCount", loaded.schedule.ID)
                      + Shares(loaded.schedule.ID) < MaxShares
                 /\ flight' = flight (+) SetToBag({[op |-> "IncrementShareCount",
                                                    schedule |-> loaded.schedule]})
    /\ UNCHANGED <<pc, op, md, path, fs, reader, calls, cause, result, items, found,
                   faults, touched, storeVars, concVars, schedules, fileRecs, creator,
                   resp, shared, kvVars>>

\* POST /api/schedules/:id/share from scheduleRepo.Update on: 200, or 500 when
\* the database fails
ShareSave ==
    /\ \E r \in BagToSet(flight), dbFails \in BOOLEAN :
         /\ r.op = "IncrementShareCount"
         /\ flight' = flight (-) SetToBag({r})
         /\ IF dbFails
            THEN UNCHANGED <<schedules, shared>>
            ELSE /\ schedules' = Update(schedules, r.schedule)
                 /\ shared' = PutRow(shared, r.schedule.ID, Shares(r.schedule.ID) + 1)
    /\ UNCHANGED <<pc, op, md, path, fs, reader, calls, cause, result, items, found,
                   faults, touched, storeVars, concVars, fileRecs, creator, resp,
                   kvVars>>

\* PUT /api/user/schedules/:id up to schedule.UpdatedAt = time.Now()
UpdateLoad ==
    /\ BagCardinality(flight) < NumCalls
    /\ \E h \in Headers, idStr \in IdArgs(schedules), req \in UpdateBodies :
         LET mw == RouteMiddleware("UpdateSchedule", h)
             loaded == IF mw.next
                       THEN LoadForUpdate(schedules, mw.ctx, idStr, req)
                       ELSE [status |-> mw.status, schedule |-> NoSchedule]
         IN IF loaded.status # 200
            THEN UNCHANGED flight
            ELSE /\ flight' = flight (+) SetToBag({[op |-> "UpdateSchedule",
                                                    schedule |-> loaded.schedule]})
    /\ UNCHANGED <<pc, op, md, path, fs, reader, calls, cause, result, items, found,
                   faults, touched, storeVars, concVars, schedules, fileRecs, creator,
                   resp, shared, kvVars>>

\* PUT /api/user/schedules/:id from scheduleRepo.Update on
UpdateSave ==
    /\ \E r \in BagToSet(flight), dbFails \in BOOLEAN :
         /\ r.op = "UpdateSchedule"
         /\ flight' = flight (-) SetToBag({r})
         /\ IF dbFails
            THEN UNCHANGED schedules
            ELSE schedules' = Update(schedules, r.schedule)
    /\ UNCHANGED <<pc, op, md, path, fs, reader, calls, cause, result, items, found,
                   faults, touched, storeVars, concVars, fileRecs, creator, resp,
                   shared, kvVars>>

\* schedules are created, shared and updated, each request in its goroutine
NextShare ==
    \/ ServeCreateSchedule
    \/ Return
    \/ ShareLoad
    \/ ShareSave
    \/ UpdateLoad
    \/ UpdateSave

SpecShare == Init /\ [][NextShare]_vars

\* ------------------------------------------------ requests for the uploads
\* what can fail in a request to FileHandler.UploadFile: a step of the
\* storage's UploadFile, os.Stat in GetFileInfo, db.Create, and os.Remove in the
\* DeleteFile that follows a failed db.Create
HandlerFaults == UploadFaults \cup {"stat", "db", "remove"}

Out(f, r, status, body, fl, drew) ==
    [fs |-> f, recs |-> r, status |-> status, body |-> body, faults |-> fl, drew |-> drew]

\* FileHandler.UploadFile from the file record on: db.Create, and DeleteFile
\* when it failed
SaveFileRecord(recs, form, fault, up, info) ==
    LET fileID == NewUUID(Cardinality(DOMAIN recs))
        fileRecord ==
            [Filename |-> form.filename, FilePath |-> up.path, FileSize |-> info.Size,
             MimeType |-> info.MimeType]
    IN IF fault \in {"db", "remove"}
       THEN Out(DeleteFile(up.fs, up.path, fault = "remove").fs, recs, 500, NoBody,
                {"db", fault}, TRUE)
       ELSE Out(up.fs, PutRow(recs, fileID, fileRecord), 200,
                <<[FileID |-> UUIDString(fileID), FilePath |-> up.path,
                   Filename |-> form.filename, Size |-> info.Size,
                   MimeType |-> info.MimeType]>>,
                {}, TRUE)

\* FileHandler.UploadFile from the return of fileStorage.GetFileInfo on
InfoOfUpload(recs, form, fault, up, fileInfo) ==
    IF fileInfo.err # NilErr THEN Out(up.fs, recs, 500, NoBody, {"stat"}, TRUE)
    ELSE SaveFileRecord(recs, form, fault, up, fileInfo.info[1])

\* FileHandler.UploadFile from the return of fileStorage.UploadFile on
StoredUpload(recs, form, fault, up) ==
    IF up.err # NilErr THEN Out(up.fs, recs, 500, NoBody, {fault} \ {"none"}, TRUE)
    ELSE InfoOfUpload(recs, form, fault, up, GetFileInfo(up.fs, up.path, fault = "stat"))

\* FileHandler.UploadFile on the form field "file"; n: the number of the value
\* uuid.New gives the storage; drew: the storage got as far as uuid.New
HandleUploadFile(fsys, recs, n, form, fault) ==
    IF form.file = NilFile THEN Out(fsys, recs, 400, NoBody, {}, FALSE)
    ELSE IF Len(Source(form.file[1])) > 10 * 1024 * 1024
    THEN Out(fsys, recs, 400, NoBody, {}, FALSE)
    ELSE IF ToLower(Ext(form.filename)) \notin {extMd, extMarkdown}
    THEN Out(fsys, recs, 400, NoBody, {}, FALSE)
    ELSE StoredUpload(recs, form, fault,
                      UploadFile(fsys, n, form.file, form.filename, form.mimeType,
                                 IF fault \in UploadFaults THEN fault ELSE "none"))

\* POST /api/upload
ServeUploadFile ==
    /\ pc = "idle"
    /\ \E file \in UploadFiles, filename \in UploadNames, mimeType \in UploadMimes,
          fault \in HandlerFaults :
         LET form == [file |-> file, filename |-> filename, mimeType |-> mimeType]
             mw == RouteMiddleware("Upload", <<>>)
             out == HandleUploadFile(fs, fileRecs, nextId + 1, form, fault)
         IN  /\ out.drew => nextId < MaxUploads
             /\ fault # "none" => fault \in out.faults
             /\ Respond("Upload", <<>>, <<>>, NoJSON, mw,
                        Reply(schedules, out.fs, out.status, out.body, out.faults))
             /\ fileRecs' = out.recs
             /\ nextId' = IF out.drew THEN nextId + 1 ELSE nextId
             /\ upload' = form
    /\ UNCHANGED <<md, path, reader, cause, result, items, found, touched, sres,
                   uploaded, issued, concVars, creator, flight, shared, kvVars>>

\* the API serving uploads, one request at a time
NextUpload ==
    \/ ServeUploadFile
    \/ Return

SpecUpload == Init /\ [][NextUpload]_vars

\* ------------------------------------------- the handler on Redis, api/index.go
\* the file names and the content the calls are made with
KvNames == {"x.md", "y.md"}
KvContents == {"# x"}

MarkdownFile(filename, content) == [Filename |-> filename, Content |-> content]

\* kvGet("files:list") and json.Unmarshal: the files of the list, none when the
\* read fails or the key is not there
ReadList(store, getFails) == IF getFails THEN <<>> ELSE store.list

\* kvSet("file:" + filename, content)
SetContent(store, filename, content) ==
    [store EXCEPT !.files = PutRow(store.files, filename, content)]

\* kvDelete("file:" + filename)
DeleteContent(store, filename) ==
    [store EXCEPT !.files = [f \in DOMAIN store.files \ {filename} |-> store.files[f]]]

\* saveMarkdownFile: the entry of the file is overwritten, or appended if the
\* list has none
Listed(files, filename, content) ==
    IF \E i \in 1..Len(files) : files[i].Filename = filename
    THEN LET first == CHOOSE i \in 1..Len(files) :
                        /\ files[i].Filename = filename
                        /\ \A j \in 1..(i - 1) : files[j].Filename # filename
         IN [files EXCEPT ![first] = MarkdownFile(filename, content)]
    ELSE Append(files, MarkdownFile(filename, content))

\* deleteMarkdownFile: the entries of other files
Unlisted(files, filename) ==
    LET Other(f) == f.Filename # filename
    IN SelectSeq(files, Other)

KvCall(o, filename, content, at, files) ==
    [op |-> o, filename |-> filename, content |-> content, pc |-> at, files |-> files]

\* saveMarkdownFile(filename, content, size): the content is stored; the call
\* returns the error when kvSet fails
SaveStoreContent ==
    /\ BagCardinality(kvflight) < NumCalls
    /\ \E filename \in KvNames, content \in KvContents, setFails \in BOOLEAN :
         IF setFails THEN UNCHANGED kvVars
         ELSE /\ kv' = SetContent(kv, filename, content)
              /\ kvflight' = kvflight (+) SetToBag({KvCall("save", filename, content,
                                                          "list", <<>>)})
    /\ UNCHANGED <<pc, op, md, path, fs, reader, calls, cause, result, items, found,
                   faults, touched, storeVars, concVars, webVars>>

\* saveMarkdownFile: the list is read and the file is put in the copy
SaveReadList ==
    /\ \E c \in BagToSet(kvflight), getFails \in BOOLEAN :
         /\ c.op = "save" /\ c.pc = "list"
         /\ kvflight' = (kvflight (-) SetToBag({c}))
                          (+) SetToBag({KvCall("save", c.filename, c.content, "write",
                                               Listed(ReadList(kv, getFails), c.filename,
                                                      c.content))})
    /\ UNCHANGED <<pc, op, md, path, fs, reader, calls, cause, result, items, found,
                   faults, touched, storeVars, concVars, webVars, kv>>

\* saveMarkdownFile: the copy is stored as the list, and the call returns
SaveWriteList ==
    /\ \E c \in BagToSet(kvflight), setFails \in BOOLEAN :
         /\ c.op = "save" /\ c.pc = "write"
         /\ kvflight' = kvflight (-) SetToBag({c})
         /\ kv' = IF setFails THEN kv ELSE [kv EXCEPT !.list = c.files]
    /\ UNCHANGED <<pc, op, md, path, fs, reader, calls, cause, result, items, found,
                   faults, touched, storeVars, concVars, webVars>>

\* deleteMarkdownFile(filename): the content is deleted; the call returns the
\* error when kvDelete fails
DeleteStoredContent ==
    /\ BagCardinality(kvflight) < NumCalls
    /\ \E filename \in KvNames, delFails \in BOOLEAN :
         IF delFails THEN UNCHANGED kvVars
         ELSE /\ kv' = DeleteContent(kv, filename)
              /\ kvflight' = kvflight (+) SetToBag({KvCall("delete", filename, "",
                                                          "list", <<>>)})
    /\ UNCHANGED <<pc, op, md, path, fs, reader, calls, cause, result, items, found,
                   faults, touched, storeVars, concVars, webVars>>

\* deleteMarkdownFile: the list is read and the file is left out of the copy
DeleteReadList ==
    /\ \E c \in BagToSet(kvflight), getFails \in BOOLEAN :
         /\ c.op = "delete" /\ c.pc = "list"
         /\ kvflight' = (kvflight (-) SetToBag({c}))
                          (+) SetToBag({KvCall("delete", c.filename, "", "write",
                                               Unlisted(ReadList(kv, getFails),
                                                        c.filename))})
    /\ UNCHANGED <<pc, op, md, path, fs, reader, calls, cause, result, items, found,
                   faults, touched, storeVars, concVars, webVars, kv>>

\* deleteMarkdownFile: the copy is stored as the list, and the call returns
DeleteWriteList ==
    /\ \E c \in BagToSet(kvflight), setFails \in BOOLEAN :
         /\ c.op = "delete" /\ c.pc = "write"
         /\ kvflight' = kvflight (-) SetToBag({c})
         /\ kv' = IF setFails THEN kv ELSE [kv EXCEPT !.list = c.files]
    /\ UNCHANGED <<pc, op, md, path, fs, reader, calls, cause, result, items, found,
                   faults, touched, storeVars, concVars, webVars>>

\* files are saved and deleted, each request in its goroutine
NextRedis ==
    \/ SaveStoreContent
    \/ SaveReadList
    \/ SaveWriteList
    \/ DeleteStoredContent
    \/ DeleteReadList
    \/ DeleteWriteList

SpecRedis == Init /\ [][NextRedis]_vars

\* ================================================================ claims
Returned(o) == pc = "returned" /\ op = o
Succeeded(o) == Returned(o) /\ result.err = NilErr /\ result.content # NilContent
Content == result.content[1]

sScriptTag == <<"<", "s", "c", "r", "i", "p", "t">>
sJsAttr == <<"=", "\"">> \o sJavascript

\* C1: whenever ProcessMarkdown succeeds, directly or through
\* ProcessMarkdownFromFile, the HTMLContent it returns has no "<script" in any
\* letter case and no attribute whose value is a javascript: URL.
C1_NoScriptNoJavascriptURL ==
    (pc = "returned" /\ op \in {"ProcessMarkdown", "ProcessMarkdownFromFile"}
       /\ result.content # NilContent)
    => /\ ~Contains(ToLower(Content.HTMLContent), sScriptTag)
       /\ ~Contains(ToLower(Content.HTMLContent), sJsAttr)

\* a processed document that had a script block, a javascript: autolink and a
\* javascript: link in it; the autolink's text is all that is left of the URL
C1_Witness ==
    /\ Succeeded("ProcessMarkdown")
    /\ md = <<BlkHtmlScript, BlkAutoJs, BlkLinkJs>>
    /\ Contains(Content.HTMLContent, sJsUrl)

\* the blocks of a document in document order, nested ones after their parent
RECURSIVE Preorder(_), PreorderAll(_)
Preorder(n) == <<n>> \o PreorderAll(n.children)
PreorderAll(ns) == IF ns = <<>> THEN <<>> ELSE Preorder(Head(ns)) \o PreorderAll(Tail(ns))

IsH1(n) == n.kind = "Heading" /\ n.level = 1
IsParagraph(n) == n.kind = "Paragraph"
H1s(d) == SelectSeq(Preorder(Parse(d)), IsH1)
Paragraphs(d) == SelectSeq(Preorder(Parse(d)), IsParagraph)

\* C2: the title is the trimmed text of the first level-1 heading, the text
\* nested in its emphasis, links and other inline nodes included, and it is
\* empty when there is no level-1 heading.
C2_TitleIsFlattenedFirstH1 ==
    Succeeded("ProcessMarkdown")
    => Content.Title =
         (IF H1s(md) = <<>> THEN <<>> ELSE TrimSpace(PlainText(H1s(md)[1].children)))

\* the document without the level-1 headings after its first one
RECURSIVE DropLaterH1(_, _)
DropLaterH1(d, seen) ==
    IF d = <<>> THEN <<>>
    ELSE IF IsH1(Head(d).node)
    THEN (IF seen THEN <<>> ELSE <<Head(d)>>) \o DropLaterH1(Tail(d), TRUE)
    ELSE <<Head(d)>> \o DropLaterH1(Tail(d), seen)

\* C3: with two or more level-1 headings the title is that of the earliest one
\* alone: it is the title of the same document without the later level-1
\* headings.
C3_OnlyFirstH1Counts ==
    (Succeeded("ProcessMarkdown") /\ Len(H1s(md)) >= 2)
    => Content.Title = extractTitleAndDescription(DropLaterH1(md, FALSE)).title

\* C4: the description is the trimmed, flattened text of the first paragraph
\* of the document, and it is empty when there is no paragraph.
C4_DescriptionIsFirstParagraph ==
    Succeeded("ProcessMarkdown")
    => Content.Description =
         (IF Paragraphs(md) = <<>> THEN <<>>
          ELSE TrimSpace(PlainText(Paragraphs(md)[1].children)))

HasParagraph(b) == SelectSeq(Preorder(b.node), IsParagraph) # <<>>
IsHeadingBlock(b) == b.node.kind = "Heading"

RECURSIVE FirstIndex(_, _, _)
\* the index of the first block from i on that satisfies P, 0 when none does
FirstIndex(d, P(_), i) ==
    IF i > Len(d) THEN 0 ELSE IF P(d[i]) THEN i ELSE FirstIndex(d, P, i + 1)

Swap(d, i, j) == [k \in 1..Len(d) |-> IF k = i THEN d[j] ELSE IF k = j THEN d[i] ELSE d[k]]

IsH1Block(b) == IsH1(b.node)
NotHasParagraph(b) == ~HasParagraph(b)
NotHeadingBlock(b) == ~IsHeadingBlock(b)

\* C5: title and description do not depend on each other nor on the order of
\* heading and paragraph: swapping the first level-1 heading with the first
\* paragraph changes neither, the title is that of the document without its
\* paragraphs and the description that of the document without its headings.
C5_TitleDescriptionIndependent ==
    Succeeded("ProcessMarkdown")
    => LET h == FirstIndex(md, IsH1Block, 1)
           q == FirstIndex(md, HasParagraph, 1)
           lo == IF h < q THEN h ELSE q
           hi == IF h < q THEN q ELSE h
           adjacent == \A k \in (lo + 1)..(hi - 1) : ~IsH1Block(md[k]) /\ ~HasParagraph(md[k])
           got == [title |-> Content.Title, description |-> Content.Description]
       IN  /\ (h # 0 /\ q # 0 /\ adjacent)
                => extractTitleAndDescription(Swap(md, h, q)) = got
           /\ extractTitleAndDescription(SelectSeq(md, NotHasParagraph)).title = got.title
           /\ extractTitleAndDescription(SelectSeq(md, NotHeadingBlock)).description
                = got.description

\* a processed document whose first paragraph comes before its level-1 heading
C5_Witness ==
    /\ Succeeded("ProcessMarkdown")
    /\ md = <<BlkPara, BlkH2, BlkH1>>
    /\ Content.Title = <<"H", "i">>
    /\ Content.Description = <<"d", ".">>

ExternalTargets == {tgtHttp, tgtHttps}
IsImageItem(it) == it.kind = "image"
IsInternalItem(it) == it.kind = "image" /\ it.target \notin ExternalTargets
TargetsOf(its) == [k \in 1..Len(its) |-> its[k].target]

\* C7: findInternalImages returns the internal targets in the order of their
\* references, once per reference, and an empty sequence with no error when the
\* source has no image reference.
C7_OrderAndDuplicatesKept ==
    Returned("findInternalImages")
    => /\ found.err = NilErr
       /\ found.images = TargetsOf(SelectSeq(items, IsInternalItem))

\* a scan of a source that names the same internal target twice, around an
\* external one
C7_Witness ==
    /\ Returned("findInternalImages")
    /\ items = <<ImageItem(<<"a">>, tgtPng), ImageItem(<<"a">>, tgtHttps),
                 ImageItem(<<"a">>, tgtPng)>>
    /\ found.images = <<tgtPng, tgtPng>>

\* C8: a target is external exactly when it begins with http:// or https:// as
\* written; every other target of the source is returned and no external one is.
C8_ExternalIffExactPrefix ==
    Returned("findInternalImages")
    => /\ \A k \in 1..Len(found.images) : found.images[k] \notin ExternalTargets
       /\ \A k \in 1..Len(items) :
            (IsImageItem(items[k]) /\ items[k].target \notin ExternalTargets)
            => \E m \in 1..Len(found.images) : found.images[m] = items[k].target

\* a scan that returned an HTTP:// target and a one-slash http:/ target and left
\* out an http:// one
C8_Witness ==
    /\ Returned("findInternalImages")
    /\ items = <<ImageItem(<<"a">>, tgtUpperHttp), ImageItem(<<"a">>, tgtHttp),
                 ImageItem(<<"a">>, tgtOneSlash)>>
    /\ found.images = <<tgtUpperHttp, tgtOneSlash>>

\* C9: a call of ProcessMarkdown or ProcessMarkdownFromFile returns either a
\* complete ProcessedContent and no error, or no ProcessedContent and an error.
C9_ResultOrError ==
    (pc = "returned" /\ op \in {"ProcessMarkdown", "ProcessMarkdownFromFile"})
    => \/ /\ result.err = NilErr
          /\ result.content # NilContent
          /\ DOMAIN Content = {"Title", "Description", "HTMLContent"}
       \/ /\ result.err # NilErr
          /\ result.content = NilContent

\* a call on a stored file whose conversion failed after the file was read
C9_Witness ==
    /\ Returned("ProcessMarkdownFromFile")
    /\ calls = <<"GetFile", "ReadAll", "ProcessMarkdown">>
    /\ result.err # NilErr
    /\ result.content = NilContent

\* C10 as claimed: when GetFile or the read fails, ProcessMarkdownFromFile
\* returns the collaborator's error itself and does not run the conversion.
C10_StorageErrorUnchanged ==
    (Returned("ProcessMarkdownFromFile") /\ cause # NilErr)
    => /\ result.err = cause
       /\ \A k \in 1..Len(calls) : calls[k] # "ProcessMarkdown"

\* C10 as amended: when GetFile or the read fails, ProcessMarkdownFromFile
\* returns no content and an error that wraps the collaborator's error under
\* "failed to read file" (GetFile) or "failed to read file content" (the read),
\* so that unwrapping it gives the collaborator's error, and the conversion is
\* not run.
C10_StorageErrorWrapped ==
    (Returned("ProcessMarkdownFromFile") /\ cause # NilErr)
    => /\ result.content = NilContent
       /\ result.err # NilErr
       /\ Unwrap(result.err) = cause
       /\ Head(result.err) =
            (IF calls = <<"GetFile">> THEN "failed to read file"
             ELSE "failed to read file content")
       /\ \A k \in 1..Len(calls) : calls[k] # "ProcessMarkdown"

\* a call for a file that is not there
C10_Witness ==
    /\ Returned("ProcessMarkdownFromFile")
    /\ path = <<"b">>
    /\ cause = ErrNotFound
    /\ result.err = <<"failed to read file", "file not found">>

\* C11: whenever ProcessMarkdownFromFile has returned and GetFile had given it a
\* reader, that reader is closed: after a read failure, after a conversion
\* failure and after success; up to the return it is open.
C11_ReaderClosedOnReturn ==
    op = "ProcessMarkdownFromFile" /\ reader.kind # "none"
    => (pc = "returned" <=> ~reader.open)

\* a call whose read of an opened file failed, returned with the reader closed
C11_Witness ==
    /\ Returned("ProcessMarkdownFromFile")
    /\ reader.kind = "file"
    /\ "read" \in faults
    /\ result.err = Wrap("failed to read file content", ErrIO)
    /\ ~reader.open

\* the path lies in the base directory
InsideBase(fullPath) == HasPrefix(fullPath, baseDir \o <<"/">>)

\* a file is stored under the path argument
StoredFile(fsys, p) ==
    /\ p # <<>>
    /\ InsideBase(Join(baseDir, p))
    /\ Exists(fsys, Join(baseDir, p))
    /\ fsys[Join(baseDir, p)].kind = "file"

\* C12: for a stored file that is opened and read without a failure,
\* ProcessMarkdownFromFile returns what ProcessMarkdown returns for the file's
\* whole content; the conversion is called after the read, on all of the
\* content.
C12_FromFileIsProcessMarkdownOfContent ==
    (op = "ProcessMarkdownFromFile" /\ StoredFile(fs, path)
       /\ faults \cap {"open", "read"} = {})
    => /\ pc = "process" => md = fs[Join(baseDir, path)].data /\ calls = <<"GetFile", "ReadAll">>
       /\ pc = "returned"
          => /\ result = ProcessMarkdown(fs[Join(baseDir, path)].data, "convert" \in faults)
             /\ calls = <<"GetFile", "ReadAll", "ProcessMarkdown">>

\* an uploaded two-block document processed from its file
C12_Witness ==
    /\ Succeeded("ProcessMarkdownFromFile")
    /\ path \in UploadPaths
    /\ fs[Join(baseDir, path)].data = DocB
    /\ Content.HTMLContent = markdownToHTML(DocB, FALSE).html

C15_ErrorOnlyFromConversion ==
    (pc = "returned" /\ "ProcessMarkdown" \in {calls[i] : i \in DOMAIN calls})
    => /\ result.err # NilErr <=> "convert" \in faults
       /\ result.err # NilErr
          => result.err = Wrap("failed to convert markdown to HTML", ErrRender)
       /\ "convert" \notin faults => result.content # NilContent

\* a document with an unclosed emphasis, a script block and a javascript: link,
\* processed without an error
C15_Witness ==
    /\ Succeeded("ProcessMarkdown")
    /\ md = <<BlkUnclosed, BlkHtmlScript, BlkLinkJs>>
    /\ faults = {}

\* C16: the HTML ProcessMarkdown returns is HTML the sanitizer leaves as it is:
\* sanitizing it again gives the same text.
C16_SanitizeIdempotent ==
    (pc = "returned" /\ op = "ProcessMarkdown" /\ result.content # NilContent)
    => SanitizeString(Content.HTMLContent) = Content.HTMLContent

\* sanitized HTML with an escaped script tag and a link in it, where the
\* renderer's output was not yet what the sanitizer returns
C16_Witness ==
    /\ Succeeded("ProcessMarkdown")
    /\ md = <<BlkCodeScript, BlkLinkHttp, BlkHtmlScript>>
    /\ Serialize(Convert(md)) # Content.HTMLContent
    /\ Tokenize(Content.HTMLContent) # <<>>

StorageCalls == {"GetFile", "UploadFile", "DeleteFile", "FileExists", "GetFileInfo"}
StorageCallsIn(cs) == SelectSeq(cs, LAMBDA c : c \in StorageCalls)

\* C17: a step of ProcessMarkdown or of ProcessMarkdownFromFile leaves the file
\* system as it is; ProcessMarkdown calls no storage operation,
\* ProcessMarkdownFromFile calls GetFile once and no other.
C17_OnlyOneStorageRead ==
    [][op' \in {"ProcessMarkdown", "ProcessMarkdownFromFile"}
         => /\ fs' = fs
            /\ StorageCallsIn(calls') =
                 IF op' = "ProcessMarkdown" THEN <<>> ELSE <<"GetFile">>]_vars

\* a file processed to the end: one GetFile, the file still there
C17_Witness ==
    /\ Succeeded("ProcessMarkdownFromFile")
    /\ path = <<"a">>
    /\ calls = <<"GetFile", "ReadAll", "ProcessMarkdown">>
    /\ fs[pathA] = FileEntry(DocA)

\* the path argument names something outside the base directory
ResolvesOutside(p) ==
    p # <<>> /\ Join(baseDir, p) # baseDir /\ ~InsideBase(Join(baseDir, p))

\* C18: GetFile (as ProcessMarkdownFromFile calls it), DeleteFile, FileExists
\* and GetFileInfo hand the os package only paths inside the base directory, and
\* a path argument that resolves outside of it is rejected with an error.
C18_NothingOutsideBaseTouched ==
    (pc # "idle"
       /\ op \in {"ProcessMarkdownFromFile", "DeleteFile", "FileExists", "GetFileInfo"})
    => /\ \A t \in touched : t = baseDir \/ InsideBase(t)
       /\ ResolvesOutside(path)
          => IF op = "ProcessMarkdownFromFile"
             THEN pc = "returned" /\ result.err # NilErr /\ reader = NoReader
             ELSE sres.err # NilErr

\* C19: every upload that succeeded and was not deleted since had content, is
\* reported by FileExists under the path UploadFile returned, and is read back
\* by GetFile under that path byte for byte; the path and the content are the
\* ones of the UploadFile call.
C19_UploadReadRoundTrip ==
    /\ \A p \in DOMAIN uploaded :
         /\ uploaded[p] # <<>>
         /\ FileExists(fs, p, FALSE).exists /\ FileExists(fs, p, FALSE).err = NilErr
         /\ GetFile(fs, p, FALSE).err = NilErr
         /\ ReadAll(GetFile(fs, p, FALSE).reader, FALSE).content = uploaded[p]
    /\ (Returned("UploadFile") /\ sres.err = NilErr)
       => sres.path \in DOMAIN uploaded /\ uploaded[sres.path] = md /\ Source(md) # <<>>

\* a second upload has succeeded while the first, with other content, is stored
C19_Witness ==
    /\ Returned("UploadFile")
    /\ sres.err = NilErr
    /\ \E p \in DOMAIN uploaded : p # sres.path /\ uploaded[p] # uploaded[sres.path]

\* C20: a DeleteFile that succeeds was given something that existed, and after
\* it FileExists says false with no error and GetFile fails for the path; a
\* DeleteFile on a path where nothing exists returns an error; a DeleteFile
\* that returns an error leaves the file system as it was.
C20_DeleteRemoves ==
    [][(pc = "idle" /\ op' = "DeleteFile")
         => /\ sres'.err = NilErr
               => /\ Exists(fs, Join(baseDir, path'))
                  /\ ~FileExists(fs', path', FALSE).exists
                  /\ FileExists(fs', path', FALSE).err = NilErr
                  /\ GetFile(fs', path', FALSE).err # NilErr
            /\ ~Exists(fs, Join(baseDir, path')) => sres'.err # NilErr
            /\ sres'.err # NilErr => fs' = fs]_vars

\* an upload that was deleted again
C20_Witness ==
    /\ Returned("DeleteFile")
    /\ sres.err = NilErr
    /\ path \in UploadPaths
    /\ ~Exists(fs, Join(baseDir, path))
    /\ uploaded = <<>>

\* what the call of task k returns when it runs alone, under the same failures
Alone(k) ==
    IF k.op = "ProcessMarkdown" THEN ProcessMarkdown(k.arg, "convert" \in k.faults)
    ELSE ProcessMarkdownFromFile(fs, k.arg, "open" \in k.faults, "read" \in k.faults,
                                 "convert" \in k.faults)

\* C14: however the steps of concurrent ProcessMarkdown and
\* ProcessMarkdownFromFile calls interleave, each call that has returned has
\* returned what the same call returns when it runs alone.
C14_ConcurrentCallsAsAlone ==
    \A t \in Tasks : tasks[t].pc = "done" => tasks[t].result = Alone(tasks[t])

\* one call has returned a content while another, on another text, is between
\* its conversion and its extraction
C14_Witness ==
    \E t, u \in Tasks :
      /\ tasks[t].pc = "done" /\ tasks[t].result.content # NilContent
      /\ tasks[u].pc = "extract"
      /\ tasks[u].md # tasks[t].md
      /\ tasks[t].op # tasks[u].op

\* the stored files with their content
StoredFiles(fsys) == {<<p, fsys[p].data>> : p \in {q \in DOMAIN fsys : fsys[q].kind = "file"}}

\* the content an UploadFile call was given, nothing for a nil reader
UploadBytes(u) == IF u.file = NilFile THEN <<>> ELSE Source(u.file[1])

C23_FileInfoOfUpload ==
    /\ \A p \in DOMAIN uploaded :
         LET r == GetFileInfo(fs, p, FALSE)
         IN  /\ r.err = NilErr
             /\ r.info = <<[Path |-> p,
                            Size |-> Len(Source(uploaded[p])),
                            MimeType |-> getMimeTypeFromExtension(Ext(p))]>>
             /\ Ext(p) = extMd => r.info[1].MimeType = "text/markdown"
             /\ Ext(p) = <<>> => r.info[1].MimeType = "application/octet-stream"
    /\ (Returned("UploadFile") /\ sres.err = NilErr)
       => Ext(sres.path) = IF Ext(upload.filename) # <<>> THEN Ext(upload.filename)
                           ELSE getExtensionFromMimeType(upload.mimeType)

\* GetFileInfo has answered for a stored .md upload
C23_Witness ==
    /\ Returned("GetFileInfo")
    /\ sres.err = NilErr
    /\ path \in DOMAIN uploaded
    /\ sres.info[1].Path = path
    /\ sres.info[1].MimeType = "text/markdown"
    /\ sres.info[1].Size = Len(Source(uploaded[path]))
    /\ sres.info[1].Size > 0

\* the user a request speaks for: the user ID in the token of its header, and
\* nobody when the header has no token the service accepts
Caller(h) ==
    LET v == ValidateToken(extractTokenFromHeader(h))
    IN IF v.err = NilErr THEN v.claims.UserID ELSE <<>>

\* the schedule the :id of the request names
Target == ParseUUID(resp.id).id
TargetStored ==
    /\ ParseUUID(resp.id).err = NilErr
    /\ Target \in DOMAIN schedules
    /\ ~schedules[Target].Deleted

\* C24: GetSchedule on a schedule that is not public answers 200 with the
\* schedule when the request is made by the user who created it, whatever the
\* form of that user's ID string, and 403 without schedule data for every other
\* caller, authenticated or not.
C24_PrivateScheduleOnlyToOwner ==
    (Returned("GetSchedule") /\ TargetStored /\ ~schedules[Target].IsPublic)
    => IF Caller(resp.header) = creator[Target]
       THEN resp.status = 200 /\ resp.body = <<scheduleToResponse(schedules[Target])>>
       ELSE resp.status = 403 /\ resp.body = NoBody

\* the file of the schedule the request names is in the storage
TargetFileStored ==
    LET p == Join(baseDir, fileRecs[schedules[Target].FileID].FilePath)
    IN Exists(fs, p) /\ fs[p].kind = "file"

\* C25: an UpdateSchedule or DeleteSchedule request changes the schedules or
\* the stored files only when its caller is authenticated and the caller's user
\* ID, parsed as a UUID or derived from the string by SHA-1, is the UserID of
\* the schedule; a request that names a stored schedule, binds and comes from
\* any other authenticated caller is answered 403 and changes neither.
C25_OnlyOwnerModifies ==
    [][(pc = "idle" /\ op' \in {"UpdateSchedule", "DeleteSchedule"})
         => LET id == ParseUUID(resp'.id)
                who == Caller(resp'.header)
                stored == id.err = NilErr /\ id.id \in DOMAIN schedules
                          /\ ~schedules[id.id].Deleted
                owner == stored /\ who # <<>> /\ UserUUID(who) = schedules[id.id].UserID
            IN /\ (schedules' # schedules \/ fs' # fs) => owner
               /\ (stored /\ resp'.bound /\ who # <<>> /\ ~owner)
                  => resp'.status = 403 /\ schedules' = schedules /\ fs' = fs]_vars

\* the administrator was refused the deletion of the user's schedule, which is
\* there with its file
C25_Witness ==
    /\ Returned("DeleteSchedule")
    /\ TargetStored
    /\ Caller(resp.header) = sAdminUser
    /\ creator[Target] = sUserLower
    /\ resp.status = 403
    /\ TargetFileStored

\* the tokens the service signed, not expired, with a user ID and a role
GoodTokens == {"tAdmin", "tUser", "tUpper"}
\* the header is "Bearer " and a good token, of an administrator where asked
Authorized(route, h) ==
    \E t \in GoodTokens : h = sBearer \o <<t>> /\ (route \in AdminRoutes => t = "tAdmin")

\* C26: the handler of a route behind AuthMiddleware runs only on a request
\* whose Authorization header is "Bearer " and a token that validates and, on
\* a route with a required role, has that role; any other request is answered
\* 401, or 403 when only the role is wrong, its handler does not run and its
\* context gets no userID and no userRole.
C26_HandlerOnlyBehindValidToken ==
    (pc = "returned" /\ op \in UserRoutes \cup AdminRoutes)
    => /\ resp.ran <=> Authorized(op, resp.header)
       /\ resp.ran => resp.ctx.exists /\ resp.ctx.userID = Caller(resp.header)
       /\ ~resp.ran
          => /\ resp.status = IF \E t \in GoodTokens : resp.header = sBearer \o <<t>>
                              THEN 403 ELSE 401
             /\ resp.ctx = NoCtx
             /\ resp.body = NoBody
             /\ faults = {}

\* a user who is no administrator was refused the dashboard
C26_Witness ==
    /\ Returned("Dashboard")
    /\ resp.header = sBearer \o <<"tUser">>
    /\ resp.status = 403
    /\ ~resp.ran

\* C28: when a DeleteSchedule request on a schedule has been answered, the
\* row of the schedule and its stored file are both there or both gone.
C28_DeleteScheduleAllOrNothing ==
    (Returned("DeleteSchedule") /\ ParseUUID(resp.id).err = NilErr
       /\ Target \in DOMAIN schedules)
    => (~schedules[Target].Deleted <=> TargetFileStored)

\* C27: once the share and update requests that were being served have all
\* been answered, the share_count of each schedule is the number of
\* IncrementShareCount requests on it that were answered 200, the count of a
\* new schedule being 0.
C27_ShareCountsNeverLost ==
    flight = EmptyBag
    => \A id \in DOMAIN schedules : schedules[id].ShareCount = Shares(id)

\* C29: an upload request that is answered with anything but 200 leaves the
\* stored files and the file records as they were, and after any upload
\* request every file stored under uploads has a file record.
C29_FailedUploadRequestLeavesNothing ==
    [][(pc = "idle" /\ op' = "Upload")
         => /\ resp'.status # 200
               => StoredFiles(fs') = StoredFiles(fs) /\ fileRecs' = fileRecs
            /\ \A p \in UploadPaths :
                 Exists(fs', Join(baseDir, p))
                 => \E id \in DOMAIN fileRecs' : fileRecs'[id].FilePath = p]_vars

\* C30: once the saveMarkdownFile and deleteMarkdownFile calls under way have
\* all returned, files:list names the files that have a content key, those and
\* no others, each of them once.
C30_ListNamesStoredFiles ==
    kvflight = EmptyBag
    => /\ {kv.list[i].Filename : i \in 1..Len(kv.list)} = DOMAIN kv.files
       /\ \A i, j \in 1..Len(kv.list) : kv.list[i].Filename = kv.list[j].Filename => i = j

====
